---- MODULE Spec2Model ----
(***************************************************************************)
(* Model of the AI meal planner API (swetapati22/ai-meal-planner-api).     *)
(*                                                                         *)
(* A request carries a natural-language query.  QueryParser.parse extracts *)
(* duration, dietary restrictions, preferences and special requirements    *)
(* with regular expressions, optionally merges the output of a validation  *)
(* model, and MealPlanGenerator.generate serves the plan from the file     *)
(* cache or generates it day by day with a fallback cascade.               *)
(*                                                                         *)
(* A query is a sequence of lower-case words (the separators between the   *)
(* words are white space or hyphens, which the duration patterns treat     *)
(* alike).  The validation model and the generation model are external:    *)
(* their outputs are nondeterministic choices.                             *)
(***************************************************************************)
EXTENDS Integers, Sequences, FiniteSets, TLC

(***************************************************************************)
(* Bounds of the model.                                                    *)
(***************************************************************************)
\* Largest number that can be written in a query.
MaxNumber == 8
\* Longest query (in words) the parser specification SpecParse explores.
MaxQueryLen == 3
\* Longest query (in words) a request of the pipeline specification carries.
MaxRequestQueryLen == 2
\* Number of requests the server receives in one behaviour.
MaxRequests == 2
\* Number of responses of the models that depart from the expected one
\* (an error, a changed or malformed answer) in one behaviour.
MaxDeviations == 2
\* Number of faults of the storage under meals_store in one behaviour.
MaxStorageFaults == 1
\* Number of seconds the clock advances in one behaviour.
MaxClock == 1
\* Longest list of restrictions handed to CacheService directly.
MaxListLen == 2

(***************************************************************************)
(* Program constants.                                                      *)
(***************************************************************************)
\* ParsedQueryParams.duration_days default, the cap of parse and the upper
\* end of the valid range.
MAX_DAYS == 7

DIETARY_RESTRICTIONS ==
    {"vegan", "vegetarian", "pescatarian", "paleo", "keto",
     "gluten-free", "dairy-free", "nut-free", "soy-free",
     "halal", "kosher", "mediterranean", "dash"}

PREFERENCES == {"low-carb", "high-protein", "low-fat", "low-sodium"}

SPECIAL_REQUIREMENTS == <<"budget-friendly", "quick", "easy", "healthy">>

\* The pairs of _validate_restrictions, in the order they are tested.
conflicts ==
    << {"vegan", "pescatarian"}, {"vegan", "vegetarian"},
       {"pescatarian", "vegetarian"} >>

(***************************************************************************)
(* Words of a query.                                                       *)
(***************************************************************************)
NumberTokens == {ToString(n) : n \in 0..MaxNumber}

\* int(match.group(1)) of a run of digits.
IntOf(t) == CHOOSE n \in 0..MaxNumber : ToString(n) = t

\* The words queries are built from.  "low[- ]carb" is the literal text the
\* escaped preference pattern matches (see ItemPattern).
WordTokens ==
    {"day", "week", "vegan", "vegetarian", "pescatarian", "keto",
     "budget", "low[- ]carb"}

Tokens == NumberTokens \cup WordTokens

QueriesUpTo(n) == UNION {[1..k -> Tokens] : k \in 1..n}

\* The words the requests of the server specifications are built from, and
\* their queries.
RequestTokens == {"0", "2", "day", "vegan", "keto", "vegetarian"}

RequestQueries == UNION {[1..k -> RequestTokens] : k \in 1..MaxRequestQueryLen}

\* The queries of the requests that exercise the store: valid durations
\* and restrictions that do not conflict.
StoreQueries ==
    UNION {[1..k -> RequestTokens \ {"0", "vegetarian"}] : k \in 1..MaxRequestQueryLen}

(***************************************************************************)
(* Helpers on sequences and sets.                                          *)
(***************************************************************************)
Range(s) == {s[i] : i \in 1..Len(s)}

Min(S) == CHOOSE x \in S : \A y \in S : x <= y

\* Every listing of the finite set S without repetition: the order in which
\* Python iterates a set of strings is fixed by the process's hash seed.
Orderings(S) ==
    {f \in [1..Cardinality(S) -> S] : \A i, j \in 1..Cardinality(S) : f[i] = f[j] => i = j}

\* An optional JSON key: <<>> when the key is absent, <<v>> when present.
Absent == <<>>
Get(opt, default) == IF opt = Absent THEN default ELSE opt[1]

(***************************************************************************)
(* QueryParser: the regular-expression extraction.                         *)
(***************************************************************************)
\* Positions where pattern (\d+)[\s-]*day matches: digits, then "day".
DayPatternAt(query) ==
    {i \in 1..(Len(query) - 1) : query[i] \in NumberTokens /\ query[i + 1] = "day"}

\* Positions where pattern (\d+)\s*week matches.
NumWeekPatternAt(query) ==
    {i \in 1..(Len(query) - 1) : query[i] \in NumberTokens /\ query[i + 1] = "week"}

\* Positions where pattern week matches.
WeekPatternAt(query) == {i \in 1..Len(query) : query[i] = "week"}

\* Positions where \b(next|this|for the|for a)\s+week\b matches.
PhraseWeekAt(query) ==
    {i \in 1..(Len(query) - 1) :
        /\ query[i + 1] = "week"
        /\ \/ query[i] \in {"next", "this"}
           \/ i > 1 /\ query[i - 1] = "for" /\ query[i] \in {"the", "a"}}

\* Positions where \b(for|over)\s+(\d+)\s+days?\b matches.
ForDaysAt(query) ==
    {i \in 1..(Len(query) - 2) :
        /\ query[i] \in {"for", "over"}
        /\ query[i + 1] \in NumberTokens
        /\ query[i + 2] \in {"day", "days"}}

\* Some duration pattern of _extract_duration matches the query.
DurationPatternMatches(query) ==
    \/ DayPatternAt(query) # {}
    \/ NumWeekPatternAt(query) # {}
    \/ WeekPatternAt(query) # {}
    \/ PhraseWeekAt(query) # {}
    \/ ForDaysAt(query) # {}

\* As _extract_duration, but the default claims to be explicit.
Mutant_extract_duration(query) ==
    IF DayPatternAt(query) # {}
    THEN <<IntOf(query[Min(DayPatternAt(query))]), TRUE>>
    ELSE IF NumWeekPatternAt(query) # {}
    THEN <<IntOf(query[Min(NumWeekPatternAt(query))]) * 7, TRUE>>
    ELSE IF WeekPatternAt(query) # {}
    THEN <<7, TRUE>>
    ELSE IF PhraseWeekAt(query) # {}
    THEN <<7, TRUE>>
    ELSE IF ForDaysAt(query) # {}
    THEN <<IntOf(query[Min(ForDaysAt(query)) + 1]), TRUE>>
    ELSE <<7, TRUE>>

\* <<duration, was_explicitly_specified>>.  The patterns are tried in the
\* order of DURATION_PATTERNS; re.search returns the leftmost match.
_extract_duration(query) ==
    IF DayPatternAt(query) # {}
    THEN <<IntOf(query[Min(DayPatternAt(query))]), TRUE>>
    ELSE IF NumWeekPatternAt(query) # {}
    THEN <<IntOf(query[Min(NumWeekPatternAt(query))]) * 7, TRUE>>
    ELSE IF WeekPatternAt(query) # {}
    THEN <<7, TRUE>>
    ELSE IF PhraseWeekAt(query) # {}
    THEN <<7, TRUE>>
    ELSE IF ForDaysAt(query) # {}
    THEN <<IntOf(query[Min(ForDaysAt(query)) + 1]), TRUE>>
    ELSE <<7, FALSE>>

\* The text matched by rf'\b{re.escape(item.replace("-", "[- ]"))}\b': the
\* replacement is escaped too, so a hyphenated item matches the literal
\* text with "[- ]" in place of the hyphen, and nothing else.
ItemPattern ==
    [x \in DIETARY_RESTRICTIONS \cup PREFERENCES |->
        CASE x = "gluten-free"  -> "gluten[- ]free"
          [] x = "dairy-free"   -> "dairy[- ]free"
          [] x = "nut-free"     -> "nut[- ]free"
          [] x = "soy-free"     -> "soy[- ]free"
          [] x = "low-carb"     -> "low[- ]carb"
          [] x = "high-protein" -> "high[- ]protein"
          [] x = "low-fat"      -> "low[- ]fat"
          [] x = "low-sodium"   -> "low[- ]sodium"
          [] OTHER              -> x]

\* The set of restrictions found; the list is one of its orderings.
_extract_dietary_restrictions(query) ==
    {x \in DIETARY_RESTRICTIONS : ItemPattern[x] \in Range(query)}

_extract_preferences(query) ==
    {x \in PREFERENCES : ItemPattern[x] \in Range(query)}

BudgetWords == {"budget", "cheap", "affordable", "inexpensive", "lowcost", "low-cost"}
QuickWords == {"quick", "fast", "quickly", "rapid"}
EasyWords == {"easy", "simple", "straightforward"}
HealthyWords == {"healthy", "nutritious", "wholesome"}

\* under\s*\d+\s*min
UnderMinAt(query) ==
    {i \in 1..(Len(query) - 2) :
        query[i] = "under" /\ query[i + 1] \in NumberTokens /\ query[i + 2] = "min"}

\* The list of special requirements, in the fixed order of the four tests.
_extract_special_requirements(query) ==
    LET has ==
          [x \in Range(SPECIAL_REQUIREMENTS) |->
              CASE x = "budget-friendly" -> Range(query) \cap BudgetWords # {}
                [] x = "quick" ->
                     Range(query) \cap QuickWords # {} \/ UnderMinAt(query) # {}
                [] x = "easy"    -> Range(query) \cap EasyWords # {}
                [] x = "healthy" -> Range(query) \cap HealthyWords # {}]
    IN  SelectSeq(SPECIAL_REQUIREMENTS, LAMBDA x : has[x])

\* As HasConflict, but the pair vegan/vegetarian is not tested.
MutantHasConflict(restrictions) ==
    \E i \in {1, 3} : conflicts[i] \subseteq Range(restrictions)

\* _validate_restrictions raises ValueError (it never returns a warning:
\* the record it builds is dropped by the raise).
HasConflict(restrictions) ==
    \E i \in 1..Len(conflicts) : conflicts[i] \subseteq Range(restrictions)

\* A warning record {"category": ..., "value": ...}.
Warning(category, value) == [category |-> category, value |-> value]

Categories(warnings) == {warnings[i].category : i \in 1..Len(warnings)}

\* As CapExceeded, but a request of exactly 7 days is reported as capped.
MutantCapExceeded(duration) == duration >= MAX_DAYS

\* The test of the cap, `if duration > 7`.
CapExceeded(duration) == duration > MAX_DAYS

\* As RegexWarnings, but the warning about the special requirements tests
\* the preferences.
MutantRegexWarnings(raw, explicit, restrictions, preferences, special) ==
    (IF ~explicit
     THEN <<Warning("days_unspecified", "Duration not specified. Defaulting to 7 days.")>>
     ELSE <<>>)
    \o (IF CapExceeded(raw)
        THEN <<Warning("days_capped_at_7",
                       "Requested " \o ToString(raw) \o " days. Limited to 7 days maximum.")>>
        ELSE <<>>)
    \o (IF restrictions = <<>>
        THEN <<Warning("dietary_restrictions_unspecified",
                       "No dietary restrictions specified. Generating general meal plan.")>>
        ELSE <<>>)
    \o (IF preferences = <<>>
        THEN <<Warning("preferences_unspecified",
                       "No nutritional preferences specified. Generating balanced meal plan.")>>
        ELSE <<>>)
    \o (IF preferences = <<>>
        THEN <<Warning("special_requirements_unspecified",
                       "No special requirements specified. Generating standard meal plan.")>>
        ELSE <<>>)

\* The warnings list of parse after the four extractions, and the capped
\* duration, from the values the extractors returned.
RegexWarnings(raw, explicit, restrictions, preferences, special) ==
    (IF ~explicit
     THEN <<Warning("days_unspecified", "Duration not specified. Defaulting to 7 days.")>>
     ELSE <<>>)
    \o (IF CapExceeded(raw)
        THEN <<Warning("days_capped_at_7",
                       "Requested " \o ToString(raw) \o " days. Limited to 7 days maximum.")>>
        ELSE <<>>)
    \o (IF restrictions = <<>>
        THEN <<Warning("dietary_restrictions_unspecified",
                       "No dietary restrictions specified. Generating general meal plan.")>>
        ELSE <<>>)
    \o (IF preferences = <<>>
        THEN <<Warning("preferences_unspecified",
                       "No nutritional preferences specified. Generating balanced meal plan.")>>
        ELSE <<>>)
    \o (IF special = <<>>
        THEN <<Warning("special_requirements_unspecified",
                       "No special requirements specified. Generating standard meal plan.")>>
        ELSE <<>>)

CappedDuration(raw) == IF CapExceeded(raw) THEN MAX_DAYS ELSE raw

(***************************************************************************)
(* LLMQueryValidator and the merge of its result in QueryParser.parse.     *)
(***************************************************************************)
\* A JSON value the model returns where a list of strings is expected:
\* an array of strings, or a value set() cannot iterate (a number, null).
ListValue(items) == [iterable |-> TRUE, items |-> items]
NotAList == [iterable |-> FALSE, items |-> <<>>]

\* Durations the validation model may answer.
LLMDurations == {0, 3, 9}

LLMRestrictionLists == {<<>>, <<"vegan">>, <<"keto", "vegan">>}
LLMPreferenceLists == {<<>>, <<"high-protein">>}
LLMSpecialLists == {<<>>, <<"budget-friendly">>}

\* Lists of warning records the validation model may answer; the last one
\* has an element that is not an object.
LLMWarningLists ==
    { [wellformed |-> TRUE, items |-> <<>>],
      [wellformed |-> TRUE,
       items |-> <<Warning("synonym_inference", "plant-based mapped to vegan")>>],
      [wellformed |-> TRUE,
       items |-> <<Warning("days_unspecified", "No duration given"),
                   Warning("days_capped_at_7", "Duration limited")>>],
      [wellformed |-> FALSE, items |-> <<>>] }

Optional(S) == {Absent} \cup {<<v>> : v \in S}

\* The "validated" objects the model may answer: every key may be missing.
ValidatedObjects ==
    [duration_days : Optional(LLMDurations),
     dietary_restrictions :
        Optional({ListValue(l) : l \in LLMRestrictionLists} \cup {NotAList}),
     preferences : Optional({ListValue(l) : l \in LLMPreferenceLists}),
     special_requirements : Optional({ListValue(l) : l \in LLMSpecialLists})]

\* What the validation request comes back with: an error (transport error,
\* content that is not JSON), or a JSON object.
ValidatorError == [kind |-> "error"]

ValidatorReplies ==
    {ValidatorError} \cup
    [kind : {"json"},
     validated : Optional(ValidatedObjects),
     additional_warnings : Optional(LLMWarningLists)]

\* The number of keys a reply fills in (an error counts as one).
ReplyWeight(reply) ==
    IF reply.kind = "error" THEN 1
    ELSE (IF reply.additional_warnings = Absent THEN 0 ELSE 1)
         + (IF reply.validated = Absent THEN 0
            ELSE LET v == reply.validated[1]
                 IN  Cardinality({k \in DOMAIN v : v[k] # Absent}))

\* initial_extraction_for_llm as a "validated" object.
AsValidated(initial) ==
    [duration_days |-> <<initial.duration_days>>,
     dietary_restrictions |-> <<ListValue(initial.dietary_restrictions)>>,
     preferences |-> <<ListValue(initial.preferences)>>,
     special_requirements |-> <<ListValue(initial.special_requirements)>>]

\* int((time.time() - start) * 1000) for a start given in seconds.
Ms(seconds) == seconds * 1000

\* The usage a reply of a model reports counts as one prompt token; the
\* times are filled in where the clock is read.
LLMLogging(tokens, enabled, error) ==
    [tokens_prompt |-> tokens, tokens_completion |-> 0, tokens_total |-> tokens,
     llm_latency_ms |-> 0, total_duration_ms |-> 0,
     enabled |-> enabled, error |-> error]

\* _detect_changes builds set(...) of each of the three lists: it raises on
\* a value that cannot be iterated.
DetectChangesRaises(validated) ==
    \E k \in {"dietary_restrictions", "preferences", "special_requirements"} :
        validated[k] # Absent /\ ~validated[k][1].iterable

\* The entry of key "duration_days" in the dict _detect_changes returns
\* (the entries of the three lists are left out): present when the model's
\* duration, or its absence, differs from the extracted duration.
_detect_changes(initial, validated) ==
    [duration_days |->
        IF validated.duration_days = <<initial.duration_days>>
        THEN Absent
        ELSE << [from |-> initial.duration_days, to |-> validated.duration_days] >>]

\* LLMQueryValidator.validate_and_enhance: enabled is `openai_api_key is not
\* None`; reply is what the request to the model comes back with.
validate_and_enhance(initial, enabled, reply) ==
    IF ~enabled
    THEN [validated |-> AsValidated(initial),
          additional_warnings |-> [wellformed |-> TRUE, items |-> <<>>],
          llm_logging |-> LLMLogging(0, FALSE, FALSE)]
    ELSE IF \/ reply.kind = "error"
            \/ DetectChangesRaises(Get(reply.validated, AsValidated(initial)))
    THEN [validated |-> AsValidated(initial),
          additional_warnings |-> [wellformed |-> TRUE, items |-> <<>>],
          llm_logging |-> LLMLogging(0, TRUE, TRUE)]
    ELSE [validated |-> Get(reply.validated, AsValidated(initial)),
          additional_warnings |->
              Get(reply.additional_warnings, [wellformed |-> TRUE, items |-> <<>>]),
          llm_logging |->
              [tokens_prompt |-> 1, tokens_completion |-> 0, tokens_total |-> 1,
               llm_latency_ms |-> 0, total_duration_ms |-> 0,
               enabled |-> TRUE, error |-> FALSE,
               changes_made |->
                   _detect_changes(initial, Get(reply.validated, AsValidated(initial)))]]

\* As MergeDuration, but the model's duration always wins.
MutantMergeDuration(duration, validated) ==
    Get(validated.duration_days, duration)

\* Lines 198-205 of parse: the model's duration replaces the extracted one
\* only when the extracted one is outside 1..7.
MergeDuration(duration, validated) ==
    LET validated_duration == Get(validated.duration_days, duration)
    IN  IF validated_duration # duration /\ (duration > 7 \/ duration < 1)
        THEN validated_duration
        ELSE duration

\* As MergeList, but the model's list replaces the extracted one.
MutantMergeList(found, value) ==
    IF Range(value.items) \ Range(found) = {}
    THEN {found}
    ELSE Orderings(Range(value.items))

\* Lines 207-226 of parse, for one field: the lists the final list can be.
\* list(set | set) has the order of a Python set.
MergeList(found, value) ==
    LET added == Range(value.items) \ Range(found)
    IN  IF added = {}
        THEN {found}
        ELSE Orderings(Range(found) \cup added)

\* As MergeWarnings, but every warning of the model is appended.
MutantMergeWarnings(warnings, additional) == warnings \o additional

\* Lines 235-246 of parse: the warnings of the model whose category the
\* extractor has not raised are appended.
MergeWarnings(warnings, additional) ==
    warnings \o SelectSeq(additional, LAMBDA w : w.category \notin Categories(warnings))

(***************************************************************************)
(* State.                                                                  *)
(***************************************************************************)
Requests == 1..MaxRequests

VARIABLES
    settings,    \* app.core.config.settings
    pc,          \* position of each request in generate_meal_plan
    query,       \* request.query, until parse has read it
    initial,     \* initial_extraction_with_warnings of parse
    params,      \* the ParsedQueryParams parse returned
    gen,         \* the locals of MealPlanGenerator.generate
    outcome,     \* what the route answered
    calls,       \* per request: model requests and cache operations made
    mapper,      \* meals_store/mapper.json
    files,       \* meals_store/meal_plan_<key>_<timestamp>.json
    disk,        \* "ok", or "full": writing under meals_store fails
    faults,      \* number of faults of the storage so far
    now,         \* int(time.time())
    loaded,      \* per worker: the dict _load_mapper returned to the call it is in
    deviations   \* responses of the models that departed from the expected

vars == <<settings, pc, query, initial, params, gen, outcome, calls,
          mapper, files, disk, faults, now, loaded, deviations>>

cacheVars == <<mapper, files, disk, faults>>

NoInitial ==
    [raw_duration |-> 0, explicit |-> FALSE, duration_days |-> 0,
     dietary_restrictions |-> <<>>, preferences |-> <<>>,
     special_requirements |-> <<>>, warnings |-> <<>>, total_start_time |-> 0]

NoParams ==
    [duration_days |-> 0, dietary_restrictions |-> <<>>, preferences |-> <<>>,
     special_requirements |-> <<>>, warnings |-> <<>>,
     llm_logging |-> LLMLogging(0, FALSE, FALSE)]

NoCalls ==
    [validation |-> 0, cache_get |-> 0, cache_save |-> 0, day |-> 0, meal |-> 0,
     returned |-> 0, start_time |-> 0, day_meal |-> 0, tokens |-> 0]

NoOutcome == [status |-> 0, detail |-> "", response |-> <<>>]

\* The answers of the route: 200 with a MealPlanResponse, or an
\* HTTPException with a detail.
Ok(response) == [status |-> 200, detail |-> "", response |-> <<response>>]
ClientError(message) ==
    [status |-> 400, detail |-> "Invalid request: " \o message, response |-> <<>>]
ServerError ==
    [status |-> 500, detail |-> "Failed to generate meal plan. Please try again.",
     response |-> <<>>]

\* The message of the first pair of conflicts that is present.
ConflictMessage(restrictions) ==
    LET i == Min({j \in 1..Len(conflicts) : conflicts[j] \subseteq Range(restrictions)})
    IN  CASE i = 1 -> "Vegan and pescatarian are conflicting"
          [] i = 2 -> "Vegan and vegetarian are conflicting - please choose one"
          [] i = 3 -> "Pescatarian and vegetarian are conflicting"
ValidationErrorMessage == "validation error for MealPlanResponse"

Settings ==
    [enable_cache : BOOLEAN, enable_llm_validation : BOOLEAN,
     openai_api_key : {"none", "invalid", "valid"}]

(***************************************************************************)
(* QueryParser.parse as steps of a request.                                *)
(***************************************************************************)
\* Lines 66-140 of parse: the extraction, the warnings, the cap and the
\* conflict check, which raises ValueError (the route answers 400).
ExtractRegex(r) ==
    /\ pc[r] = "received"
    /\ LET d == _extract_duration(query[r])
           special == _extract_special_requirements(query[r])
       IN  \E restrictions \in Orderings(_extract_dietary_restrictions(query[r])),
              preferences \in Orderings(_extract_preferences(query[r])) :
             /\ initial' = [initial EXCEPT ![r] =
                    [raw_duration |-> d[1], explicit |-> d[2],
                     duration_days |-> CappedDuration(d[1]),
                     dietary_restrictions |-> restrictions,
                     preferences |-> preferences,
                     special_requirements |-> special,
                     warnings |-> RegexWarnings(d[1], d[2], restrictions,
                                                preferences, special),
                     total_start_time |-> now]]
             /\ IF HasConflict(restrictions)
                THEN /\ pc' = [pc EXCEPT ![r] = "done"]
                     /\ outcome' = [outcome EXCEPT ![r] =
                                       ClientError(ConflictMessage(restrictions))]
                ELSE /\ pc' = [pc EXCEPT ![r] = "extracted"]
                     /\ UNCHANGED outcome
    /\ UNCHANGED <<settings, loaded, query, params, gen, calls, cacheVars, now, deviations>>

\* The ParsedQueryParams parse returns when the validation pass is switched
\* off (settings.enable_llm_validation is false).
RegexOnly(init) ==
    [duration_days |-> init.duration_days,
     dietary_restrictions |-> init.dietary_restrictions,
     preferences |-> init.preferences,
     special_requirements |-> init.special_requirements,
     warnings |-> init.warnings,
     llm_logging |-> LLMLogging(0, FALSE, FALSE)]

\* Lines 185-255 of parse: the ParsedQueryParams parse can return from the
\* result of validate_and_enhance.  A malformed list of warnings raises
\* after the duration and the lists are merged; the handler records the
\* error in the default llm_logging.
MergedParams(init, res) ==
    { [duration_days |-> MergeDuration(init.duration_days, res.validated),
       dietary_restrictions |-> dr,
       preferences |-> pf,
       special_requirements |-> sr,
       warnings |-> IF res.additional_warnings.wellformed
                    THEN MergeWarnings(init.warnings, res.additional_warnings.items)
                    ELSE init.warnings,
       llm_logging |-> IF res.additional_warnings.wellformed
                       THEN res.llm_logging
                       ELSE LLMLogging(0, FALSE, TRUE)] :
      dr \in MergeList(init.dietary_restrictions,
                       Get(res.validated.dietary_restrictions,
                           ListValue(init.dietary_restrictions))),
      pf \in MergeList(init.preferences,
                       Get(res.validated.preferences, ListValue(init.preferences))),
      sr \in MergeList(init.special_requirements,
                       Get(res.validated.special_requirements,
                           ListValue(init.special_requirements))) }

\* The times of llm_logging: the validator measures the latency of its
\* request (llm_query_validator.py 67, 105), parse its whole duration
\* (query_parser.py 258-259).
Timed(p, total_start_time, start_time) ==
    [p EXCEPT !.llm_logging.llm_latency_ms =
                  IF p.llm_logging.enabled THEN Ms(now - start_time) ELSE 0,
              !.llm_logging.total_duration_ms = Ms(now - total_start_time)]

\* parse returns p: the request goes on to MealPlanGenerator.generate.
ParseReturns(r, p) ==
    /\ params' = [params EXCEPT ![r] =
                     Timed(p, initial[r].total_start_time, calls[r].start_time)]
    /\ pc' = [pc EXCEPT ![r] = "parsed"]
    /\ query' = [query EXCEPT ![r] = <<>>]
    /\ calls' = [calls EXCEPT ![r].returned =
                    @ + (IF pc[r] = "validating" THEN 1 ELSE 0)]
    /\ UNCHANGED <<settings, loaded, initial, gen, outcome, cacheVars, now>>

\* The validation pass makes no request to the model: it is switched off,
\* or no credential is configured (LLMQueryValidator.enabled is false).
SkipValidation(r) ==
    /\ pc[r] = "extracted"
    /\ \/ /\ ~settings.enable_llm_validation
          /\ ParseReturns(r, RegexOnly(initial[r]))
       \/ /\ settings.enable_llm_validation
          /\ settings.openai_api_key = "none"
          /\ \E p \in MergedParams(initial[r],
                                   validate_and_enhance(initial[r], FALSE, ValidatorError)) :
                ParseReturns(r, p)
    /\ UNCHANGED deviations

\* validate_and_enhance builds the prompt from the query and awaits the
\* validation model (_call_llm_with_schema).
RequestValidation(r) ==
    /\ pc[r] = "extracted"
    /\ settings.enable_llm_validation
    /\ settings.openai_api_key # "none"
    /\ pc' = [pc EXCEPT ![r] = "validating"]
    /\ query' = [query EXCEPT ![r] = <<>>]
    /\ calls' = [calls EXCEPT ![r].validation = @ + 1, ![r].start_time = now]
    /\ UNCHANGED <<settings, loaded, initial, params, gen, outcome, cacheVars, now, deviations>>

\* What a reply of the validation model costs of the budget of deviations.
ValidationCost(reply) ==
    IF settings.openai_api_key = "valid" THEN ReplyWeight(reply) ELSE 0

\* The validation request comes back with reply.
ValidationReturns(r, reply) ==
    /\ pc[r] = "validating"
    /\ settings.openai_api_key = "invalid" => reply = ValidatorError
    /\ \E p \in MergedParams(initial[r], validate_and_enhance(initial[r], TRUE, reply)) :
          ParseReturns(r, p)
    /\ deviations' = deviations + ValidationCost(reply)

\* Any reply of the validation model.
ValidateAny(r) ==
    /\ pc[r] = "validating"
    /\ \E reply \in ValidatorReplies : ValidationReturns(r, reply)

\* A reply of the validation model within the budget of deviations.
Validate(r) ==
    /\ pc[r] = "validating"
    /\ \E reply \in ValidatorReplies :
          /\ deviations + ValidationCost(reply) <= MaxDeviations
          /\ ValidationReturns(r, reply)

(***************************************************************************)
(* CacheService.                                                           *)
(***************************************************************************)
\* The strings of the three vocabularies in the order of Python's sorted().
Alphabetical ==
    <<"budget-friendly", "dairy-free", "dash", "easy", "gluten-free", "halal",
      "healthy", "high-protein", "keto", "kosher", "low-carb", "low-fat",
      "low-sodium", "mediterranean", "nut-free", "paleo", "pescatarian",
      "quick", "soy-free", "vegan", "vegetarian">>

Rank(x) == CHOOSE i \in 1..Len(Alphabetical) : Alphabetical[i] = x

RemoveAt(list, i) == SubSeq(list, 1, i - 1) \o SubSeq(list, i + 1, Len(list))

\* sorted(list): repeated elements are kept.
RECURSIVE sorted(_)
sorted(list) ==
    IF list = <<>> THEN <<>>
    ELSE LET m == CHOOSE i \in 1..Len(list) :
                    \A j \in 1..Len(list) :
                        \/ Rank(list[i]) < Rank(list[j])
                        \/ Rank(list[i]) = Rank(list[j]) /\ i <= j
         IN  <<list[m]>> \o sorted(RemoveAt(list, m))

\* As _make_cache_key, but the lists are not sorted.
Mutant_make_cache_key(dietary_restrictions, preferences, duration_days, special_requirements) ==
    [dietary_restrictions |-> dietary_restrictions,
     preferences |-> preferences,
     duration_days |-> duration_days,
     special_requirements |-> special_requirements]

\* The key is the MD5 digest of the JSON text of this object (sort_keys);
\* the digest is taken to be injective, so the object stands for the key.
_make_cache_key(dietary_restrictions, preferences, duration_days, special_requirements) ==
    [dietary_restrictions |-> sorted(dietary_restrictions),
     preferences |-> sorted(preferences),
     duration_days |-> duration_days,
     special_requirements |-> sorted(special_requirements)]

KeyOf(p) ==
    _make_cache_key(p.dietary_restrictions, p.preferences, p.duration_days,
                    p.special_requirements)

\* f"meal_plan_{cache_key}_{timestamp}.json"
Filename(cache_key, timestamp) == [cache_key |-> cache_key, timestamp |-> timestamp]

\* The content of a stored file: the JSON text of a plan, text that is not
\* JSON, or a JSON object that is not a MealPlanResponse.
StoredPlan(meal_plan_data) == [json |-> TRUE, plan |-> <<meal_plan_data>>]
NotJson == [json |-> FALSE, plan |-> <<>>]
NotAPlan == [json |-> TRUE, plan |-> <<>>]

\* As Without, but nothing is left of the mapper.
MutantWithout(m, cache_key) == <<>>

\* mapper with the entry of cache_key removed.
Without(m, cache_key) == [k \in DOMAIN m \ {cache_key} |-> m[k]]

\* get_meal_plan: the mapper afterwards and what is returned (<<>> for
\* None, else the dict read from the file).
get_meal_plan(p) ==
    LET cache_key == KeyOf(p)
        miss == [mapper |-> mapper, found |-> <<>>]
    IN  IF ~settings.enable_cache THEN miss
        ELSE IF cache_key \notin DOMAIN mapper THEN miss
        ELSE IF mapper[cache_key].filename \in DOMAIN files
        THEN IF files[mapper[cache_key].filename].json
             THEN [mapper |-> mapper, found |-> <<files[mapper[cache_key].filename]>>]
             ELSE miss
        ELSE [mapper |-> IF disk = "ok" THEN Without(mapper, cache_key) ELSE mapper,
              found |-> <<>>]

\* save_meal_plan, the files afterwards: the plan is written under a name
\* made of the key and the clock.
SavedFiles(p, meal_plan_data) ==
    IF ~settings.enable_cache \/ disk # "ok" THEN files
    ELSE (Filename(KeyOf(p), now) :> StoredPlan(meal_plan_data)) @@ files

\* As SavedMapper, but the entry names a file of the next second.
MutantSavedMapper(p) ==
    IF ~settings.enable_cache \/ disk # "ok" THEN mapper
    ELSE (KeyOf(p) :>
            [filename |-> Filename(KeyOf(p), now + 1),
             dietary_restrictions |-> sorted(p.dietary_restrictions),
             preferences |-> sorted(p.preferences),
             duration_days |-> p.duration_days,
             special_requirements |-> sorted(p.special_requirements),
             cached_at |-> now]) @@ mapper

\* save_meal_plan, the mapper afterwards: the entry of the key names the
\* file just written.
SavedMapper(p) ==
    IF ~settings.enable_cache \/ disk # "ok" THEN mapper
    ELSE (KeyOf(p) :>
            [filename |-> Filename(KeyOf(p), now),
             dietary_restrictions |-> sorted(p.dietary_restrictions),
             preferences |-> sorted(p.preferences),
             duration_days |-> p.duration_days,
             special_requirements |-> sorted(p.special_requirements),
             cached_at |-> now]) @@ mapper

(***************************************************************************)
(* Meals.                                                                  *)
(***************************************************************************)
\* str.title() of the meal types that occur.
Title(meal_type) ==
    CASE meal_type = "breakfast" -> "Breakfast"
      [] meal_type = "lunch"     -> "Lunch"
      [] meal_type = "dinner"    -> "Dinner"
      [] meal_type = "snack"     -> "Snack"
      [] meal_type = "brunch"    -> "Brunch"

\* As _placeholder_recipe, but the meal is tagged as generated.
Mutant_placeholder_recipe(meal_type) ==
    [meal_type |-> meal_type,
     recipe_name |-> "Simple " \o Title(meal_type) \o " Bowl",
     description |-> "A simple placeholder recipe.",
     ingredients |-> <<"ingredient 1", "ingredient 2">>,
     nutritional_info |-> [calories |-> 300, protein |-> 12, carbs |-> 40, fat |-> 8],
     preparation_time |-> "15 mins",
     instructions |-> "Mix ingredients and serve.",
     source |-> "AI Generated"]

_placeholder_recipe(meal_type) ==
    [meal_type |-> meal_type,
     recipe_name |-> "Simple " \o Title(meal_type) \o " Bowl",
     description |-> "A simple placeholder recipe.",
     ingredients |-> <<"ingredient 1", "ingredient 2">>,
     nutritional_info |-> [calories |-> 300, protein |-> 12, carbs |-> 40, fat |-> 8],
     preparation_time |-> "15 mins",
     instructions |-> "Mix ingredients and serve.",
     source |-> "Placeholder"]

\* The fields of schemas.Meal, all required.
MealFields ==
    {"meal_type", "recipe_name", "description", "ingredients", "nutritional_info",
     "preparation_time", "instructions", "source"}

\* A meal_type value that is not a string (a number, null).
NON_STRING == "<not a string>"

\* A meal entry of a response of the generation model: a complete object
\* that validates as a Meal ("meal"), an object that does not validate
\* ("incomplete": a field is missing or has the wrong type), or a value
\* that is not an object ("not_object").  meal_type is optional.
Entry(shape, meal_type) == [shape |-> shape, meal_type |-> meal_type]

MealEntry(meal_type) == Entry("meal", <<meal_type>>)

\* Meal(**meal_data) succeeds.
Validates(entry) ==
    /\ entry.shape = "meal"
    /\ entry.meal_type # Absent
    /\ entry.meal_type[1] # NON_STRING

\* The Meal built from a complete entry written by the model.
MealOf(entry) ==
    [meal_type |-> entry.meal_type[1],
     recipe_name |-> "Model recipe",
     description |-> "A dish described by the model.",
     ingredients |-> <<"1 cup oats">>,
     nutritional_info |-> [calories |-> 350, protein |-> 20, carbs |-> 40, fat |-> 10],
     preparation_time |-> "20 mins",
     instructions |-> "Cook and serve.",
     source |-> "AI Generated"]

(***************************************************************************)
(* The generation model (LLMService) as seen by the generator.             *)
(***************************************************************************)
ModelError == [kind |-> "error", meals |-> <<>>]

\* A JSON object with (or, for Absent, without) the key "meals".
DayJson(meals) == [kind |-> "json", meals |-> meals]

\* The response the prompt asks for: one complete meal per required type.
ExpectedDay(meal_types) ==
    DayJson(<< [i \in 1..Len(meal_types) |-> MealEntry(meal_types[i])] >>)

\* Entries that can stand where a meal of meal_type was asked for.
OtherEntries(meal_type) ==
    { Entry("incomplete", <<meal_type>>), Entry("incomplete", Absent),
      Entry("incomplete", <<NON_STRING>>), Entry("not_object", Absent),
      MealEntry("brunch") }

\* What generate_day_plan can come back with: an exception (no client,
\* transport error, content that is not a JSON object), the expected
\* response, or a response that departs from it in one place.
DayReplies(meal_types) ==
    LET expected == ExpectedDay(meal_types).meals[1]
    IN  {ModelError, ExpectedDay(meal_types), DayJson(Absent)}
        \cup UNION { {DayJson(<<[j \in 1..Len(expected) |->
                                    IF j = i THEN e ELSE expected[j]]>>) :
                        e \in OtherEntries(meal_types[i])} : i \in 1..Len(expected) }
        \cup {DayJson(<<SubSeq(expected, 1, Len(expected) - 1)>>),
              DayJson(<<Append(expected, MealEntry("snack"))>>)}

\* What generate_single_meal can come back with: an exception, or the dict
\* of one meal.
MealReplies(meal_type) ==
    {ModelError} \cup
    {DayJson(<< <<e>> >>) :
        e \in {MealEntry(meal_type), MealEntry("brunch"), Entry("incomplete", <<meal_type>>)}}

\* The replies the model can give with the configured credential.
PossibleReplies(replies) ==
    IF settings.openai_api_key = "valid" THEN replies ELSE {ModelError}

\* A reply that is not the expected one uses up one deviation.
ReplyCost(reply, expected) ==
    IF settings.openai_api_key = "valid" /\ reply # expected THEN 1 ELSE 0

(***************************************************************************)
(* MealPlanGenerator._generate_day_plan.                                   *)
(***************************************************************************)
\* The loop over llm_result["meals"] up to its next suspension: the meals
\* so far, the entries left (the first is the one being replaced) and how
\* the loop stopped: at the end of the list ("end"), at the await of
\* generate_single_meal ("await"), or with an exception that leaves the
\* loop ("raise": meal_data.get of a value that is not an object).
RECURSIVE ConsumeEntries(_, _)
ConsumeEntries(meals, entries) ==
    IF entries = <<>>
    THEN [meals |-> meals, entries |-> <<>>, stop |-> "end"]
    ELSE IF Validates(Head(entries))
    THEN ConsumeEntries(Append(meals, MealOf(Head(entries))), Tail(entries))
    ELSE IF Head(entries).shape = "not_object"
    THEN [meals |-> meals, entries |-> entries, stop |-> "raise"]
    ELSE [meals |-> meals, entries |-> entries, stop |-> "await"]

\* meal_data.get("meal_type", "lunch")
FallbackType(entry) == Get(entry.meal_type, "lunch")

\* The meal a reply of generate_single_meal gives: <<meal>>, or <<>> when
\* the call or Meal(**fallback_meal_data) raised.
FallbackMeal(reply) ==
    IF reply.kind = "json" /\ Validates(reply.meals[1][1])
    THEN <<MealOf(reply.meals[1][1])>>
    ELSE <<>>

\* The compact projection appended to all_previous_meals.
Projection(m) ==
    [meal_type |-> m.meal_type, recipe_name |-> m.recipe_name,
     description |-> m.description, nutritional_info |-> m.nutritional_info]

\* Lines 90-92 of generate: the deterministic snack rule.
MealTypesOf(day_index) ==
    IF day_index % 2 = 0
    THEN <<"breakfast", "lunch", "dinner", "snack">>
    ELSE <<"breakfast", "lunch", "dinner">>

\* The locals of generate at the start of the miss path.
NewGen(r) ==
    [meal_plan_id |-> r, day_index |-> 1, meal_types |-> <<>>,
     path |-> "none", entries |-> <<>>, todo |-> <<>>, meals |-> <<>>,
     day_tokens |-> 0, day_latency |-> 0, day_plans |-> <<>>,
     all_previous_meals |-> <<>>, total_start |-> 0,
     meal_gen_llm_logging |->
         [tokens_prompt |-> 0, tokens_completion |-> 0, tokens_total |-> 0,
          llm_latency_ms |-> 0, total_duration_ms |-> 0, days_generated |-> 0]]

\* Lines 103-109 of generate: the metrics of a day are added; tokens is
\* the usage of the day's request, or 0 with fallback_metrics, whose
\* latency is 0 as well.
Aggregate(logging, tokens, latency) ==
    [logging EXCEPT !.tokens_prompt = @ + tokens,
                    !.tokens_total = @ + tokens,
                    !.llm_latency_ms = @ + (IF tokens = 0 THEN 0 ELSE latency),
                    !.days_generated = @ + 1]

\* As DayDone, but the days are numbered from 0.
MutantDayDone(g, meals, tokens) ==
    [g EXCEPT
        !.day_plans = Append(@, [day |-> g.day_index - 1, date |-> g.day_index - 1,
                                 meals |-> meals]),
        !.all_previous_meals = @ \o [i \in 1..Len(meals) |-> Projection(meals[i])],
        !.meal_gen_llm_logging = Aggregate(@, tokens, g.day_latency),
        !.day_index = @ + 1,
        !.path = "none", !.entries = <<>>, !.todo = <<>>, !.meals = <<>>,
        !.day_tokens = 0, !.day_latency = 0]

\* As DayDone, but the context is replaced by the meals of the day.
MutantDayDoneContext(g, meals, tokens) ==
    [g EXCEPT
        !.day_plans = Append(@, [day |-> g.day_index, date |-> g.day_index - 1,
                                 meals |-> meals]),
        !.all_previous_meals = [i \in 1..Len(meals) |-> Projection(meals[i])],
        !.meal_gen_llm_logging = Aggregate(@, tokens, g.day_latency),
        !.day_index = @ + 1,
        !.path = "none", !.entries = <<>>, !.todo = <<>>, !.meals = <<>>,
        !.day_tokens = 0, !.day_latency = 0]

\* _generate_day_plan returns (DayMealPlan(meals), metrics); lines 103-129
\* of generate add the metrics, extend the context and keep the day.
DayDone(g, meals, tokens) ==
    [g EXCEPT
        !.day_plans = Append(@, [day |-> g.day_index, date |-> g.day_index - 1,
                                 meals |-> meals]),
        !.all_previous_meals = @ \o [i \in 1..Len(meals) |-> Projection(meals[i])],
        !.meal_gen_llm_logging = Aggregate(@, tokens, g.day_latency),
        !.day_index = @ + 1,
        !.path = "none", !.entries = <<>>, !.todo = <<>>, !.meals = <<>>,
        !.day_tokens = 0, !.day_latency = 0]

\* As StartFallback, but without the except branch: the exception leaves
\* _generate_day_plan.
MutantStartFallback(g) == [g EXCEPT !.path = "raised"]

\* The except branch of _generate_day_plan starts: every required type is
\* generated on its own, whatever was parsed before is left behind, and
\* the day will return fallback_metrics (day_llm_metrics keeps its value).
StartFallback(g) ==
    [g EXCEPT !.path = "fallback", !.todo = g.meal_types, !.entries = <<>>,
              !.meals = <<>>]

\* The state of generate after the loop over the entries ran from the
\* given meals and entries to its next stop.
AfterEntries(g, meals, entries) ==
    LET c == ConsumeEntries(meals, entries)
    IN  CASE c.stop = "end"   -> DayDone(g, c.meals, g.day_tokens)
          [] c.stop = "await" -> [g EXCEPT !.path = "primary", !.meals = c.meals,
                                           !.entries = c.entries]
          [] c.stop = "raise" -> StartFallback(g)

\* As PcOf, but generate goes on to the next day without awaiting the
\* single-meal requests of the day.
MutantPcOf(g) ==
    CASE g.path = "raised" -> "done"
      [] OTHER             -> "gen_loop"

\* The position of the request for the locals g; an exception that left
\* _generate_day_plan ("raised") leaves generate too and ends the request.
PcOf(g) ==
    CASE g.path = "none"   -> "gen_loop"
      [] g.path = "raised" -> "done"
      [] OTHER             -> "await_meal"

(***************************************************************************)
(* MealPlanGenerator._generate_summary and the response.                   *)
(***************************************************************************)
\* re.search(r"(\d+)", preparation_time): <<n>>, or <<>> without a match.
FirstInt(preparation_time) ==
    CASE preparation_time = "15 mins"        -> <<15>>
      [] preparation_time = "20 mins"        -> <<20>>
      [] preparation_time = "1 hour 30 mins" -> <<1>>
      [] OTHER -> <<>>

AllMeals(day_plans) ==
    LET RECURSIVE flat(_)
        flat(i) == IF i > Len(day_plans) THEN <<>> ELSE day_plans[i].meals \o flat(i + 1)
    IN  flat(1)

SumOf(numbers) ==
    LET RECURSIVE sum(_)
        sum(i) == IF i > Len(numbers) THEN 0 ELSE numbers[i] + sum(i + 1)
    IN  sum(1)

\* As _generate_summary, but the base cost is 2.0 unless "budget-friendly"
\* is required.
Mutant_generate_summaryCost(day_plans, p) ==
    LET meals == AllMeals(day_plans)
        total_meals == SumOf([i \in 1..Len(day_plans) |-> Len(day_plans[i].meals)])
        found == SelectSeq(meals, LAMBDA m : FirstInt(m.preparation_time) # <<>>)
        total_time == SumOf([i \in 1..Len(found) |-> FirstInt(found[i].preparation_time)[1]])
        count == Len(found)
        base2 == IF "budget-friendly" \in Range(p.special_requirements) THEN 7 ELSE 4
        min_cost == (total_meals * base2) \div 2
        max_cost == (total_meals * (base2 + 3)) \div 2
    IN  [total_meals |-> total_meals,
         dietary_compliance |-> p.dietary_restrictions \o p.preferences,
         estimated_cost |-> "$" \o ToString(min_cost) \o "-" \o ToString(max_cost),
         avg_prep_time |-> IF count # 0
                           THEN ToString(total_time \div count) \o " mins"
                           ELSE "25 mins"]

\* As _generate_summary, but the time is averaged over all meals.
Mutant_generate_summaryCount(day_plans, p) ==
    LET meals == AllMeals(day_plans)
        total_meals == SumOf([i \in 1..Len(day_plans) |-> Len(day_plans[i].meals)])
        found == SelectSeq(meals, LAMBDA m : FirstInt(m.preparation_time) # <<>>)
        total_time == SumOf([i \in 1..Len(found) |-> FirstInt(found[i].preparation_time)[1]])
        count == Len(meals)
        base2 == IF "budget-friendly" \in Range(p.special_requirements) THEN 4 ELSE 7
        min_cost == (total_meals * base2) \div 2
        max_cost == (total_meals * (base2 + 3)) \div 2
    IN  [total_meals |-> total_meals,
         dietary_compliance |-> p.dietary_restrictions \o p.preferences,
         estimated_cost |-> "$" \o ToString(min_cost) \o "-" \o ToString(max_cost),
         avg_prep_time |-> IF count # 0
                           THEN ToString(total_time \div count) \o " mins"
                           ELSE "25 mins"]

_generate_summary(day_plans, p) ==
    LET meals == AllMeals(day_plans)
        total_meals == SumOf([i \in 1..Len(day_plans) |-> Len(day_plans[i].meals)])
        found == SelectSeq(meals, LAMBDA m : FirstInt(m.preparation_time) # <<>>)
        total_time == SumOf([i \in 1..Len(found) |-> FirstInt(found[i].preparation_time)[1]])
        count == Len(found)
        \* twice the base cost: 2.0 or 3.5
        base2 == IF "budget-friendly" \in Range(p.special_requirements) THEN 4 ELSE 7
        min_cost == (total_meals * base2) \div 2
        max_cost == (total_meals * (base2 + 3)) \div 2
    IN  [total_meals |-> total_meals,
         dietary_compliance |-> p.dietary_restrictions \o p.preferences,
         estimated_cost |-> "$" \o ToString(min_cost) \o "-" \o ToString(max_cost),
         avg_prep_time |-> IF count # 0
                           THEN ToString(total_time \div count) \o " mins"
                           ELSE "25 mins"]

\* Lines 141-174 of generate: the MealPlanResponse of a fresh generation.
FreshResponse(g, p) ==
    [meal_plan_id |-> g.meal_plan_id,
     duration_days |-> p.duration_days,
     generated_at |-> now,
     meal_plan |-> g.day_plans,
     summary |-> _generate_summary(g.day_plans, p),
     warnings |-> p.warnings,
     query_validation_llm_logging |-> <<p.llm_logging>>,
     meal_generation_llm_logging |->
         IF g.meal_gen_llm_logging.tokens_total > 0
         THEN << [g.meal_gen_llm_logging EXCEPT
                     !.total_duration_ms = Ms(now - g.total_start)] >>
         ELSE <<>>,
     total_llm_logging |->
         << [tokens_prompt |-> p.llm_logging.tokens_prompt
                               + g.meal_gen_llm_logging.tokens_prompt,
             tokens_completion |-> p.llm_logging.tokens_completion
                                   + g.meal_gen_llm_logging.tokens_completion,
             tokens_total |-> p.llm_logging.tokens_total
                              + g.meal_gen_llm_logging.tokens_total,
             llm_latency_ms |-> p.llm_logging.llm_latency_ms
                                + g.meal_gen_llm_logging.llm_latency_ms,
             total_duration_ms |-> Ms(now - g.total_start),
             query_validation_tokens |-> p.llm_logging.tokens_total,
             meal_generation_tokens |-> g.meal_gen_llm_logging.tokens_total,
             query_validation_time_ms |-> p.llm_logging.llm_latency_ms,
             meal_generation_time_ms |-> g.meal_gen_llm_logging.llm_latency_ms] >>]

\* MealPlanResponse accepts the value of duration_days (ge=1, le=7).
DurationValid(duration_days) == duration_days >= 1 /\ duration_days <= 7

\* As CachedResponse, but the plan is stamped again.
MutantCachedResponse(plan, p) ==
    [plan EXCEPT !.query_validation_llm_logging = <<p.llm_logging>>,
                 !.generated_at = now]

\* Lines 56-63 of generate: the stored plan with the query-validation
\* record of the current request.
CachedResponse(plan, p) ==
    [plan EXCEPT !.query_validation_llm_logging = <<p.llm_logging>>]

(***************************************************************************)
(* The route generate_meal_plan and MealPlanGenerator.generate as steps.   *)
(***************************************************************************)
Quiet == \A r \in Requests : pc[r] \in {"idle", "done"}

\* A request arrives; requests are served one after the other.
Receive(r, queries) ==
    /\ pc[r] = "idle"
    /\ \A r2 \in Requests : r2 < r => pc[r2] = "done"
    /\ \E q \in queries : query' = [query EXCEPT ![r] = q]
    /\ pc' = [pc EXCEPT ![r] = "received"]
    /\ UNCHANGED <<settings, loaded, initial, params, gen, outcome, calls, cacheVars, now, deviations>>

\* A model request is made only with a client, that is with a credential.
Issued == IF settings.openai_api_key = "none" THEN 0 ELSE 1

\* `if cached_meal_plan:` of generate.
IsHit(found) == found # <<>>

\* Lines 44-66 of generate: the lookup; on a hit the stored plan becomes
\* the response (a dict that is no MealPlanResponse raises pydantic's
\* ValidationError, a ValueError: the route answers 400), on a miss the
\* generation starts.
CheckCache(r) ==
    /\ pc[r] = "parsed"
    /\ LET res == get_meal_plan(params[r])
       IN  /\ mapper' = res.mapper
           /\ IF ~IsHit(res.found)
              THEN /\ gen' = [gen EXCEPT ![r] = [NewGen(r) EXCEPT !.total_start = now]]
                   /\ pc' = [pc EXCEPT ![r] = "gen_loop"]
                   /\ UNCHANGED outcome
              ELSE /\ pc' = [pc EXCEPT ![r] = "done"]
                   /\ outcome' = [outcome EXCEPT ![r] =
                         IF res.found[1].plan = <<>>
                         THEN ClientError(ValidationErrorMessage)
                         ELSE Ok(CachedResponse(res.found[1].plan[1], params[r]))]
                   /\ UNCHANGED gen
    /\ calls' = [calls EXCEPT ![r].cache_get = @ + (IF settings.enable_cache THEN 1 ELSE 0)]
    /\ UNCHANGED <<settings, loaded, query, initial, params, files, disk, faults, now, deviations>>

\* As AllDaysGenerated, but the loop stops one day early.
MutantAllDaysGenerated(g, p) == g.day_index >= p.duration_days

\* `for day_index in range(1, params.duration_days + 1)` is exhausted.
AllDaysGenerated(g, p) == g.day_index > p.duration_days

\* Lines 83-101 of generate: the next day starts and generate_day_plan is
\* awaited.
StartDay(r) ==
    /\ pc[r] = "gen_loop"
    /\ ~AllDaysGenerated(gen[r], params[r])
    /\ gen' = [gen EXCEPT ![r].meal_types = MealTypesOf(gen[r].day_index)]
    /\ pc' = [pc EXCEPT ![r] = "await_day"]
    /\ calls' = [calls EXCEPT ![r].day = @ + Issued, ![r].start_time = now,
                               ![r].day_meal = 0]
    /\ UNCHANGED <<settings, loaded, query, initial, params, outcome, cacheVars, now, deviations>>

\* The tokens the usage of a reply reports: what came back as a JSON
\* object came with a usage (llm_service.py 58-62, 196-199).
Reported(reply) == IF reply.kind = "json" THEN 1 ELSE 0

\* The request moves to the position of its new locals g; entering the
\* await of generate_single_meal issues a request, and an exception that
\* reaches the route is answered 500.
Continue(r, g, reply) ==
    /\ gen' = [gen EXCEPT ![r] = g]
    /\ pc' = [pc EXCEPT ![r] = PcOf(g)]
    /\ outcome' = IF PcOf(g) = "done"
                  THEN [outcome EXCEPT ![r] = ServerError]
                  ELSE outcome
    /\ calls' = [calls EXCEPT ![r].meal =
                    @ + (IF PcOf(g) = "await_meal" THEN Issued ELSE 0),
                               ![r].day_meal =
                    @ + (IF PcOf(g) = "await_meal" THEN Issued ELSE 0),
                               ![r].returned = @ + Issued,
                               ![r].tokens = @ + Reported(reply)]
    /\ UNCHANGED <<settings, loaded, query, initial, params, cacheVars, now>>

\* generate_day_plan comes back with reply.
DayReturns(r) ==
    /\ pc[r] = "await_day"
    /\ \E reply \in PossibleReplies(DayReplies(gen[r].meal_types)) :
          LET cost == ReplyCost(reply, ExpectedDay(gen[r].meal_types))
          IN  /\ deviations + cost <= MaxDeviations
              /\ deviations' = deviations + cost
              /\ IF reply.kind = "error"
                 THEN Continue(r, StartFallback(gen[r]), reply)
                 ELSE Continue(r, AfterEntries([gen[r] EXCEPT
                                                   !.day_tokens = 1,
                                                   !.day_latency =
                                                       Ms(now - calls[r].start_time)],
                                               <<>>, Get(reply.meals, <<>>)), reply)

\* As Requested, but every single-meal request asks for the default type.
MutantRequested(g) == "lunch"

\* The meal type the awaited generate_single_meal was asked for.
Requested(g) ==
    IF g.path = "primary" THEN FallbackType(Head(g.entries)) ELSE Head(g.todo)

\* The reply the prompt of generate_single_meal asks for.
ExpectedMeal(meal_type) ==
    DayJson(<< <<MealEntry(IF meal_type = NON_STRING THEN "brunch" ELSE meal_type)>> >>)

\* generate_single_meal comes back with reply: the meal, or the
\* placeholder (whose title() raises for a type that is not a string).
MealReturns(r) ==
    /\ pc[r] = "await_meal"
    /\ LET g == gen[r]
           t == Requested(g)
       IN  \E reply \in PossibleReplies(MealReplies(t) \cup {ExpectedMeal(t)}) :
             LET cost == ReplyCost(reply, ExpectedMeal(t))
                 fm == FallbackMeal(reply)
             IN  /\ deviations + cost <= MaxDeviations
                 /\ deviations' = deviations + cost
                 /\ IF g.path = "primary"
                    THEN IF fm = <<>> /\ t = NON_STRING
                         THEN Continue(r, StartFallback(g), reply)
                         ELSE Continue(r, AfterEntries(g,
                                 Append(g.meals,
                                        IF fm # <<>> THEN fm[1] ELSE _placeholder_recipe(t)),
                                 Tail(g.entries)), reply)
                    ELSE LET m == IF fm # <<>> THEN fm[1] ELSE _placeholder_recipe(t)
                         IN  IF Len(g.todo) = 1
                             THEN Continue(r, DayDone(g, Append(g.meals, m), 0), reply)
                             ELSE Continue(r, [g EXCEPT !.meals = Append(@, m),
                                                        !.todo = Tail(@)], reply)

\* Lines 131-194 of generate: summary, response, save_meal_plan, return.
\* MealPlanResponse raises pydantic's ValidationError, a ValueError, for a
\* duration outside 1..7: the route answers 400.
Assemble(r) ==
    /\ pc[r] = "gen_loop"
    /\ AllDaysGenerated(gen[r], params[r])
    /\ pc' = [pc EXCEPT ![r] = "done"]
    /\ IF DurationValid(params[r].duration_days)
       THEN /\ outcome' = [outcome EXCEPT ![r] = Ok(FreshResponse(gen[r], params[r]))]
            /\ files' = SavedFiles(params[r], FreshResponse(gen[r], params[r]))
            /\ mapper' = SavedMapper(params[r])
            /\ calls' = [calls EXCEPT ![r].cache_save =
                            @ + (IF settings.enable_cache THEN 1 ELSE 0)]
       ELSE /\ outcome' = [outcome EXCEPT ![r] = ClientError(ValidationErrorMessage)]
            /\ UNCHANGED <<files, mapper, calls>>
    /\ UNCHANGED <<settings, loaded, query, initial, params, gen, disk, faults, now, deviations>>

(***************************************************************************)
(* The environment: the clock and the storage.                             *)
(***************************************************************************)
\* The environment acts between requests, while another request is to come.
Between == Quiet /\ \E r \in Requests : pc[r] = "idle"

Tick ==
    /\ Between
    /\ now < MaxClock
    /\ now' = now + 1
    /\ UNCHANGED <<settings, loaded, pc, query, initial, params, gen, outcome, calls,
                   cacheVars, deviations>>

Fault(newFiles, newDisk) ==
    /\ Between
    /\ faults < MaxStorageFaults
    /\ faults' = faults + 1
    /\ files' = newFiles
    /\ disk' = newDisk
    /\ UNCHANGED <<settings, loaded, pc, query, initial, params, gen, outcome, calls,
                   mapper, now, deviations>>

\* A stored plan is deleted out of band.
FileDeleted == \E f \in DOMAIN files : Fault([x \in DOMAIN files \ {f} |-> files[x]], disk)

\* A stored plan is truncated: its text is no longer JSON.
FileTruncated == \E f \in DOMAIN files : Fault([files EXCEPT ![f] = NotJson], disk)

\* A stored plan is replaced by a JSON object of another structure.
FileReplaced == \E f \in DOMAIN files : Fault([files EXCEPT ![f] = NotAPlan], disk)

\* The disk fills up: from now on every write under meals_store fails.
DiskFills == disk = "ok" /\ Fault(files, "full")

(***************************************************************************)
(* The parser alone: one request, any query, any reply of the model.       *)
(***************************************************************************)
InitParse ==
    /\ settings \in {s \in Settings : s.enable_cache}
    /\ pc = [r \in Requests |-> IF r = 1 THEN "received" ELSE "idle"]
    /\ \E q \in QueriesUpTo(MaxQueryLen) :
          query = [r \in Requests |-> IF r = 1 THEN q ELSE <<>>]
    /\ initial = [r \in Requests |-> NoInitial]
    /\ params = [r \in Requests |-> NoParams]
    /\ gen = [r \in Requests |-> NewGen(r)]
    /\ outcome = [r \in Requests |-> NoOutcome]
    /\ calls = [r \in Requests |-> NoCalls]
    /\ mapper = <<>>
    /\ files = <<>>
    /\ disk = "ok"
    /\ faults = 0
    /\ now = 0
    /\ loaded = [r \in Requests |-> <<>>]
    /\ deviations = 0

NextParse ==
    \/ ExtractRegex(1)
    \/ SkipValidation(1)
    \/ RequestValidation(1)
    \/ ValidateAny(1)

SpecParse == InitParse /\ [][NextParse]_vars

(***************************************************************************)
(* The server.                                                             *)
(***************************************************************************)
\* The steps of request r.
Serve(r, queries) ==
    \/ Receive(r, queries)
    \/ ExtractRegex(r)
    \/ SkipValidation(r)
    \/ RequestValidation(r)
    \/ Validate(r)
    \/ CheckCache(r)
    \/ StartDay(r)
    \/ DayReturns(r)
    \/ MealReturns(r)
    \/ Assemble(r)

Idle(budget) ==
    /\ pc = [r \in Requests |-> "idle"]
    /\ query = [r \in Requests |-> <<>>]
    /\ initial = [r \in Requests |-> NoInitial]
    /\ params = [r \in Requests |-> NoParams]
    /\ gen = [r \in Requests |-> NewGen(r)]
    /\ outcome = [r \in Requests |-> NoOutcome]
    /\ calls = [r \in Requests |-> NoCalls]
    /\ mapper = <<>>
    /\ files = <<>>
    /\ disk = "ok"
    /\ faults = 0
    /\ now = 0
    /\ loaded = [r \in Requests |-> <<>>]
    /\ deviations = budget

\* One request against an empty store, under any settings and for any
\* query of RequestQueries; the models may depart from the expected
\* response MaxDeviations - 1 times.
Init == settings \in Settings /\ Idle(MaxDeviations - 1)

Next == Serve(1, RequestQueries)

Spec == Init /\ [][Next]_vars

\* Requests one after the other against the store, with the clock and the
\* faults of the storage in between; the models answer as asked for, or
\* fail every time when the credential is missing or invalid.
InitCache == settings \in Settings /\ Idle(MaxDeviations)

NextCache ==
    \/ \E r \in Requests : Serve(r, StoreQueries)
    \/ Tick
    \/ FileDeleted
    \/ FileTruncated
    \/ FileReplaced
    \/ DiskFills

SpecCache == InitCache /\ [][NextCache]_vars

(***************************************************************************)
(* CacheService called directly, with any constraint tuples.               *)
(***************************************************************************)
\* The lists of restrictions of the calls: any order, repeated elements.
StoreRestrictionLists == UNION {[1..k -> {"vegan", "keto"}] : k \in 0..MaxListLen}

\* The arguments of the calls, as the ParsedQueryParams that carries them.
ConstraintTuples ==
    { [NoParams EXCEPT !.duration_days = d, !.dietary_restrictions = dr,
                       !.preferences = pf, !.special_requirements = sr] :
        d \in {1, 2}, dr \in StoreRestrictionLists,
        pf \in {<<>>, <<"low-carb">>}, sr \in {<<>>, <<"quick">>} }

\* save_meal_plan is called with the constraints params[r] and a plan.
CacheSave(r) ==
    /\ calls[r].cache_save = 0
    /\ files' = SavedFiles(params[r], FreshResponse(NewGen(r), params[r]))
    /\ mapper' = SavedMapper(params[r])
    /\ calls' = [calls EXCEPT ![r].cache_save = @ + 1]
    /\ UNCHANGED <<settings, loaded, pc, query, initial, params, gen, outcome, disk, faults,
                   now, deviations>>

\* get_meal_plan is called with the constraints params[r]; the caller
\* keeps what it returned.
CacheGet(r) ==
    /\ calls[r].cache_get = 0
    /\ LET res == get_meal_plan(params[r])
       IN  /\ mapper' = res.mapper
           /\ outcome' = [outcome EXCEPT ![r] =
                 IF IsHit(res.found) /\ res.found[1].plan # <<>>
                 THEN Ok(res.found[1].plan[1]) ELSE NoOutcome]
    /\ calls' = [calls EXCEPT ![r].cache_get = @ + 1]
    /\ UNCHANGED <<settings, loaded, pc, query, initial, params, gen, files, disk, faults,
                   now, deviations>>

InitStore ==
    /\ settings \in {st \in Settings : st.enable_cache /\ st.enable_llm_validation
                                        /\ st.openai_api_key = "valid"}
    /\ pc = [r \in Requests |-> "idle"]
    /\ query = [r \in Requests |-> <<>>]
    /\ initial = [r \in Requests |-> NoInitial]
    /\ params \in [Requests -> ConstraintTuples]
    /\ gen = [r \in Requests |-> NewGen(r)]
    /\ outcome = [r \in Requests |-> NoOutcome]
    /\ calls = [r \in Requests |-> NoCalls]
    /\ mapper = <<>>
    /\ files = <<>>
    /\ disk = "ok"
    /\ faults = 0
    /\ now = 0
    /\ loaded = [r \in Requests |-> <<>>]
    /\ deviations = 0

\* A stored plan is removed from meals_store by something other than the
\* service; the mapper is not told.
BodyRemoved ==
    /\ \E f \in DOMAIN files : files' = [x \in DOMAIN files \ {f} |-> files[x]]
    /\ UNCHANGED <<settings, loaded, pc, query, initial, params, gen, outcome, calls, mapper,
                   disk, faults, now, deviations>>

NextStore == \E r \in Requests : CacheSave(r) \/ CacheGet(r)

SpecStore == InitStore /\ [][NextStore]_vars

\* CacheService called directly while stored plans disappear and the disk
\* fills up; the calls differ in duration and restrictions.
InitStale ==
    /\ InitStore
    /\ \A r \in Requests :
          params[r].preferences = <<>> /\ params[r].special_requirements = <<>>

NextStale == NextStore \/ BodyRemoved \/ DiskFills

SpecStale == InitStale /\ [][NextStale]_vars

\* As CacheClear, but the mapper is left as it was.
MutantCacheClear ==
    /\ files' = <<>>
    /\ UNCHANGED <<settings, loaded, pc, query, initial, params, gen, outcome, calls,
                   mapper, disk, faults, now, deviations>>

\* clear: every .json file of meals_store is removed, mapper.json among
\* them, and an empty mapper is written; whether or not that write
\* succeeds, _load_mapper returns {} afterwards.  The flag enabled is not
\* consulted.
CacheClear ==
    /\ files' = <<>>
    /\ mapper' = <<>>
    /\ UNCHANGED <<settings, loaded, pc, query, initial, params, gen, outcome, calls,
                   disk, faults, now, deviations>>

\* A sequential history of get_meal_plan, save_meal_plan and clear, the
\* clock advancing and the disk filling up in between; nothing but the
\* service removes a file.
NextHistory == NextStore \/ CacheClear \/ Tick \/ DiskFills

SpecHistory == InitStale /\ [][NextHistory]_vars

\* Settings.cache_ttl_hours: int = 24
cache_ttl_hours == 24

\* The seconds of an hour.
Hours(h) == h * 3600

\* More than cache_ttl_hours pass between two calls.
TtlElapses ==
    /\ now <= MaxClock
    /\ now' = now + Hours(cache_ttl_hours) + 1
    /\ UNCHANGED <<settings, loaded, pc, query, initial, params, gen, outcome, calls,
                   cacheVars, deviations>>

\* CacheService called directly, the calls more than cache_ttl_hours
\* apart or not.
NextTtl == NextStore \/ Tick \/ TtlElapses

SpecTtl == InitStale /\ [][NextTtl]_vars

(***************************************************************************)
(* The same questions asked again.                                         *)
(***************************************************************************)
\* Two queries the clients repeat.
RepeatQueries == {<<"1", "day">>, <<"2", "day">>}

\* Requests one after the other, with the cache enabled; the clock
\* advances in between and the models may depart from the expected
\* response MaxDeviations times.
InitRepeat ==
    /\ settings \in {st \in Settings : st.enable_cache}
    /\ Idle(0)

NextRepeat ==
    \/ \E r \in Requests : Serve(r, RepeatQueries)
    \/ Tick

SpecRepeat == InitRepeat /\ [][NextRepeat]_vars

(***************************************************************************)
(* Requests interleaved at the awaits of one server process.               *)
(***************************************************************************)
\* The query the concurrent clients send: the same constraints, two days.
ConcurrentQueries == {<<"2", "day">>}

\* A request arrives while others are being served.
Arrive(r, queries) ==
    /\ pc[r] = "idle"
    /\ \E q \in queries : query' = [query EXCEPT ![r] = q]
    /\ pc' = [pc EXCEPT ![r] = "received"]
    /\ UNCHANGED <<settings, loaded, initial, params, gen, outcome, calls, cacheVars, now, deviations>>

\* The cache is enabled and a credential is configured; the models may
\* depart from the expected response MaxDeviations - 1 times.
InitConcurrent ==
    /\ settings \in {st \in Settings : st.enable_cache /\ st.openai_api_key = "valid"}
    /\ Idle(MaxDeviations - 1)

NextConcurrent ==
    \/ \E r \in Requests :
          \/ Arrive(r, ConcurrentQueries)
          \/ ExtractRegex(r)
          \/ SkipValidation(r)
          \/ RequestValidation(r)
          \/ Validate(r)
          \/ CheckCache(r)
          \/ StartDay(r)
          \/ DayReturns(r)
          \/ MealReturns(r)
          \/ Assemble(r)

SpecConcurrent == InitConcurrent /\ [][NextConcurrent]_vars

(***************************************************************************)
(* One request while the clock runs.                                       *)
(***************************************************************************)
\* The queries of the timed request.
TimedQueries == {<<"1", "day">>, <<"2", "day">>}

\* A second passes while the server waits for a model; the code between
\* two awaits runs within the second.
Elapse ==
    /\ \E r \in Requests : pc[r] \in {"validating", "await_day", "await_meal"}
    /\ now < MaxClock
    /\ now' = now + 1
    /\ UNCHANGED <<settings, loaded, pc, query, initial, params, gen, outcome, calls,
                   cacheVars, deviations>>

InitTimed == settings \in Settings /\ Idle(MaxDeviations - 1)

NextTimed == Serve(1, TimedQueries) \/ Elapse

SpecTimed == InitTimed /\ [][NextTimed]_vars

(***************************************************************************)
(* CacheService called by independent workers: a load and a save of the    *)
(* mapper are atomic each, the calls are not.                              *)
(***************************************************************************)
\* Lines 145-156 of save_meal_plan: the plan is written and the mapper is
\* loaded.
SaveLoads(w) ==
    /\ pc[w] = "idle"
    /\ calls[w].cache_save = 0
    /\ files' = SavedFiles(params[w], FreshResponse(NewGen(w), params[w]))
    /\ loaded' = [loaded EXCEPT ![w] = mapper]
    /\ pc' = [pc EXCEPT ![w] = "save_loaded"]
    /\ UNCHANGED <<settings, query, initial, params, gen, outcome, calls, mapper,
                   disk, faults, now, deviations>>

\* Lines 157-165 of save_meal_plan: the entry is set in the dict that was
\* loaded and the dict is saved.
SaveStores(w) ==
    /\ pc[w] = "save_loaded"
    /\ mapper' = (KeyOf(params[w]) :> SavedMapper(params[w])[KeyOf(params[w])])
                     @@ loaded[w]
    /\ pc' = [pc EXCEPT ![w] = "idle"]
    /\ calls' = [calls EXCEPT ![w].cache_save = @ + 1]
    /\ UNCHANGED <<settings, loaded, query, initial, params, gen, outcome, files,
                   disk, faults, now, deviations>>

\* Line 99 of get_meal_plan: the mapper is loaded.
GetLoads(w) ==
    /\ pc[w] = "idle"
    /\ calls[w].cache_get = 0
    /\ loaded' = [loaded EXCEPT ![w] = mapper]
    /\ pc' = [pc EXCEPT ![w] = "get_loaded"]
    /\ UNCHANGED <<settings, query, initial, params, gen, outcome, calls, cacheVars,
                   now, deviations>>

\* Lines 102-117 of get_meal_plan: the file of the entry is read, or the
\* entry is deleted from the dict that was loaded and the dict is saved.
GetReturns(w) ==
    /\ pc[w] = "get_loaded"
    /\ LET cache_key == KeyOf(params[w])
       IN  IF cache_key \notin DOMAIN loaded[w]
           THEN UNCHANGED <<mapper, outcome>>
           ELSE IF loaded[w][cache_key].filename \in DOMAIN files
           THEN /\ outcome' = [outcome EXCEPT ![w] =
                                  Ok(files[loaded[w][cache_key].filename].plan[1])]
                /\ UNCHANGED mapper
           ELSE /\ mapper' = Without(loaded[w], cache_key)
                /\ UNCHANGED outcome
    /\ pc' = [pc EXCEPT ![w] = "idle"]
    /\ calls' = [calls EXCEPT ![w].cache_get = @ + 1]
    /\ UNCHANGED <<settings, loaded, query, initial, params, gen, files, disk,
                   faults, now, deviations>>

\* Every worker calls with a key of its own.
InitWorkers ==
    /\ InitStore
    /\ \A w \in Requests :
          params[w] = [NoParams EXCEPT !.duration_days = w,
                                       !.dietary_restrictions = params[w].dietary_restrictions]

NextWorkers ==
    \/ \E w \in Requests : SaveLoads(w) \/ SaveStores(w) \/ GetLoads(w) \/ GetReturns(w)
    \/ BodyRemoved

SpecWorkers == InitWorkers /\ [][NextWorkers]_vars

(***************************************************************************)
(* The summary of any plan.                                                *)
(***************************************************************************)
\* The most meals a day of the summarised plans has.
MaxMeals == 2

\* What the model can write as preparation_time: one integer, two
\* integers, none.
PreparationTimes == {"15 mins", "20 mins", "1 hour 30 mins", "a while"}

\* The days a plan can be made of: up to MaxMeals valid meals each.
SummarisedDays ==
    UNION { [1..k -> {[MealOf(MealEntry("lunch")) EXCEPT !.preparation_time = t] :
                        t \in PreparationTimes}] : k \in 0..MaxMeals }

\* generate has finished its loop over the days: the plan of one or two
\* days is any plan, the special requirements any of three lists.
InitSummary ==
    /\ settings \in {st \in Settings : ~st.enable_cache /\ ~st.enable_llm_validation
                                        /\ st.openai_api_key = "valid"}
    /\ query = [r \in Requests |-> <<>>]
    /\ initial = [r \in Requests |-> NoInitial]
    /\ outcome = [r \in Requests |-> NoOutcome]
    /\ calls = [r \in Requests |-> NoCalls]
    /\ mapper = <<>>
    /\ files = <<>>
    /\ disk = "ok"
    /\ faults = 0
    /\ now = 0
    /\ loaded = [r \in Requests |-> <<>>]
    /\ deviations = 0
    /\ \E d \in {1, 2}, sr \in {<<>>, <<"budget-friendly">>, <<"quick">>},
          meals \in [1..2 -> SummarisedDays] :
          /\ pc = [r \in Requests |-> IF r = 1 THEN "gen_loop" ELSE "idle"]
          /\ params = [r \in Requests |->
                IF r = 1
                THEN [NoParams EXCEPT !.duration_days = d, !.special_requirements = sr]
                ELSE NoParams]
          /\ gen = [r \in Requests |->
                IF r = 1
                THEN [NewGen(r) EXCEPT
                         !.day_index = d + 1,
                         !.day_plans = [i \in 1..d |->
                                          [day |-> i, date |-> i - 1, meals |-> meals[i]]]]
                ELSE NewGen(r)]

NextSummary == Assemble(1)

SpecSummary == InitSummary /\ [][NextSummary]_vars

(***************************************************************************)
(* Properties.                                                             *)
(***************************************************************************)
Categories_of_final(r) == Categories(params[r].warnings)

TypesOf(meals) == {meals[i].meal_type : i \in 1..Len(meals)}

\* C1: on a cache miss, whatever the model answers, the meal types of every
\* generated day are exactly breakfast, lunch, dinner on an odd day and
\* breakfast, lunch, dinner, snack on an even day.
C1_DayMealTypes ==
    \A r \in Requests : \A i \in 1..Len(gen[r].day_plans) :
        TypesOf(gen[r].day_plans[i].meals) =
            IF gen[r].day_plans[i].day % 2 = 0
            THEN {"breakfast", "lunch", "dinner", "snack"}
            ELSE {"breakfast", "lunch", "dinner"}

\* C2: for every query and every output of the validation model each of the
\* three lists parse returns contains every item of the list the regular
\* expressions extracted.
C2_FinalSupersetOfInitial ==
    \A r \in Requests :
        pc[r] = "parsed" =>
            /\ Range(initial[r].dietary_restrictions) \subseteq Range(params[r].dietary_restrictions)
            /\ Range(initial[r].preferences) \subseteq Range(params[r].preferences)
            /\ Range(initial[r].special_requirements) \subseteq Range(params[r].special_requirements)

\* The model answered with restrictions that leave out the extracted
\* "vegetarian" and add another item; the merged list holds both.
C2_Witness ==
    /\ pc[1] = "parsed"
    /\ params[1].llm_logging.tokens_total = 1
    /\ "vegetarian" \in Range(initial[1].dietary_restrictions)
    /\ "vegan" \notin Range(initial[1].dietary_restrictions)
    /\ "vegan" \in Range(params[1].dietary_restrictions)

ConflictingPairs ==
    {{"vegan", "pescatarian"}, {"vegan", "vegetarian"}, {"pescatarian", "vegetarian"}}

Conflicting(r) ==
    \E pair \in ConflictingPairs : pair \subseteq Range(initial[r].dietary_restrictions)

\* C3: when the extracted restrictions hold both members of a conflicting
\* pair, the request has failed with the conflict error (400) and has made
\* no validation request, no cache read or write and no generation request.
C3_ConflictFailsBeforeAnyCall ==
    \A r \in Requests :
        Conflicting(r) =>
            /\ pc[r] = "done"
            /\ outcome[r].status = 400
            /\ outcome[r].detail \in
                  {"Invalid request: Vegan and pescatarian are conflicting",
                   "Invalid request: Vegan and vegetarian are conflicting - please choose one",
                   "Invalid request: Pescatarian and vegetarian are conflicting"}
            /\ outcome[r].response = <<>>
            /\ calls[r] = NoCalls
            /\ gen[r] = NewGen(r)
            /\ mapper = <<>> /\ files = <<>>

C3_Witness ==
    /\ pc[1] = "done"
    /\ {"vegan", "vegetarian"} \subseteq Range(initial[1].dietary_restrictions)
    /\ outcome[1].status = 400

SameConstraints(p, q) ==
    /\ p.duration_days = q.duration_days
    /\ \A k \in {"dietary_restrictions", "preferences", "special_requirements"} :
          /\ Len(p[k]) = Len(q[k])
          /\ Range(p[k]) = Range(q[k])

PastLookup(r) == pc[r] \in {"gen_loop", "await_day", "await_meal", "done"}

\* C4: with the cache enabled and no fault of the storage, once a request
\* has completed with a plan, a later request with the same constraints up
\* to the order of the lists is a hit: it answers the stored plan and makes
\* no day-level and no single-meal request to the model.
C4_SameConstraintsHit ==
    \A r1, r2 \in Requests :
        ( /\ r1 < r2
          /\ settings.enable_cache /\ faults = 0
          /\ pc[r1] = "done" /\ outcome[r1].status = 200
          /\ PastLookup(r2)
          /\ SameConstraints(params[r1], params[r2]) )
        => /\ pc[r2] = "done"
           /\ outcome[r2].status = 200
           /\ outcome[r2].response =
                 <<[outcome[r1].response[1] EXCEPT
                       !.query_validation_llm_logging = <<params[r2].llm_logging>>]>>
           /\ calls[r2].day = 0
           /\ calls[r2].meal = 0
           /\ calls[r2].cache_save = 0

\* The second request lists the two restrictions in the other order.
C4_Witness ==
    /\ settings.enable_cache /\ faults = 0
    /\ pc[1] = "done" /\ pc[2] = "done"
    /\ outcome[1].status = 200
    /\ params[1].dietary_restrictions = <<"vegan", "keto">>
    /\ params[2].dietary_restrictions = <<"keto", "vegan">>
    /\ outcome[2].status = 200
    /\ calls[2].cache_get = 1

\* C5: when every request to the model fails (no credential, or an invalid
\* one), every generated day holds one meal per required type, each the
\* placeholder "Simple <Type> Bowl" of source "Placeholder" with all the
\* fields of a Meal, and a request for 1..7 days ends with the whole plan.
C5_AllPlaceholdersWhenModelFails ==
    settings.openai_api_key \in {"none", "invalid"} =>
        \A r \in Requests :
            /\ \A i \in 1..Len(gen[r].day_plans) :
                  LET day == gen[r].day_plans[i]
                      required == IF day.day % 2 = 0
                                  THEN <<"breakfast", "lunch", "dinner", "snack">>
                                  ELSE <<"breakfast", "lunch", "dinner">>
                  IN  /\ day.day = i
                      /\ [j \in 1..Len(day.meals) |-> day.meals[j].meal_type] = required
                      /\ \A j \in 1..Len(day.meals) :
                            /\ DOMAIN day.meals[j] = MealFields
                            /\ day.meals[j].source = "Placeholder"
                            /\ day.meals[j].recipe_name \in
                                  {"Simple Breakfast Bowl", "Simple Lunch Bowl",
                                   "Simple Dinner Bowl", "Simple Snack Bowl"}
                            /\ day.meals[j].recipe_name =
                                  "Simple " \o Title(required[j]) \o " Bowl"
            /\ (pc[r] = "done" /\ params[r].duration_days \in 1..7) =>
                  /\ outcome[r].status = 200
                  /\ outcome[r].response[1].duration_days = params[r].duration_days
                  /\ outcome[r].response[1].meal_plan = gen[r].day_plans
                  /\ Len(gen[r].day_plans) = params[r].duration_days

C5_Witness ==
    /\ settings.openai_api_key = "invalid"
    /\ pc[1] = "done"
    /\ outcome[1].status = 200
    /\ Len(outcome[1].response[1].meal_plan) = 7
    /\ calls[1].meal = 24

\* C6: no failure of the cache makes a request fail: after a failed read
\* (missing or unreadable index or body, a body of another structure) the
\* request goes on as on a miss, after a failed write it still answers the
\* plan.  Every request of this specification is valid, so each ends 200.
C6_CacheNeverFailsRequest ==
    \A r \in Requests : pc[r] = "done" => outcome[r].status = 200

\* C7: the route answers 400 only for the conflict error of the extraction;
\* every other failure is a 500 with the generic detail; every request ends
\* in a plan, a client error or a server error.
C7_ClientErrorOnlyForConflict ==
    \A r \in Requests :
        pc[r] = "done" =>
            /\ outcome[r].status \in {200, 400, 500}
            /\ outcome[r].status = 200 <=> outcome[r].response # <<>>
            /\ outcome[r].status = 400 => Conflicting(r)
            /\ outcome[r].status = 500 =>
                  outcome[r].detail = "Failed to generate meal plan. Please try again."

\* C8: for every query and every outcome of the validation pass the
\* duration_days parse returns is in 1..7.
C8_DurationInRange ==
    \A r \in Requests : pc[r] = "parsed" => params[r].duration_days \in 1..7

\* C9: when no duration pattern matches the query, the extraction yields 7
\* days and the warnings (the extractor's and the returned ones) hold a
\* days_unspecified record; when a pattern matches, the extractor produces
\* no days_unspecified record.
C9_DefaultDuration ==
    \A r \in Requests :
        /\ (pc[r] = "extracted" \/ (pc[r] = "done" /\ query[r] # <<>>)) =>
              IF DurationPatternMatches(query[r])
              THEN /\ initial[r].explicit
                   /\ "days_unspecified" \notin Categories(initial[r].warnings)
              ELSE /\ ~initial[r].explicit
                   /\ initial[r].raw_duration = 7
                   /\ initial[r].duration_days = 7
                   /\ "days_unspecified" \in Categories(initial[r].warnings)
        /\ (pc[r] = "parsed" /\ ~initial[r].explicit) =>
              "days_unspecified" \in Categories_of_final(r)
        /\ (pc[r] = "parsed" /\ initial[r].explicit
                /\ params[r].llm_logging.tokens_total = 0) =>
              "days_unspecified" \notin Categories_of_final(r)

\* parse returned for a query without a duration, after the validation
\* model answered.
C9_Witness ==
    /\ pc[1] = "parsed"
    /\ ~initial[1].explicit
    /\ params[1].llm_logging.tokens_total = 1
    /\ params[1].duration_days = 7
    /\ "days_unspecified" \in Categories_of_final(1)

C11_InRangeDurationKept ==
    \A r \in Requests :
        pc[r] = "parsed" =>
            /\ initial[r].duration_days \in 1..7 =>
                  params[r].duration_days = initial[r].duration_days
            /\ (params[r].duration_days # initial[r].duration_days
                    /\ ~params[r].llm_logging.error) =>
                  /\ initial[r].duration_days \notin 1..7
                  /\ params[r].llm_logging.tokens_total = 1
                  /\ params[r].llm_logging.changes_made.duration_days =
                        << [from |-> initial[r].duration_days,
                            to |-> <<params[r].duration_days>>] >>

\* Two days were extracted, the model answered three, two are returned.
C11_Witness ==
    /\ pc[1] = "parsed"
    /\ initial[1].duration_days = 2
    /\ params[1].llm_logging.tokens_total = 1
    /\ params[1].llm_logging.changes_made.duration_days = <<[from |-> 2, to |-> <<3>>]>>
    /\ params[1].duration_days = 2

\* C12: whenever the validation pass fails (error of the call, content
\* that is not JSON, output of the wrong shape, malformed warning records)
\* parse returns the extracted duration, lists and warnings unchanged and
\* the usage record carries the error marker.
C12_FailedValidationKeepsExtraction ==
    \A r \in Requests :
        (pc[r] = "parsed" /\ params[r].llm_logging.error) =>
            /\ params[r].duration_days = initial[r].duration_days
            /\ params[r].dietary_restrictions = initial[r].dietary_restrictions
            /\ params[r].preferences = initial[r].preferences
            /\ params[r].special_requirements = initial[r].special_requirements
            /\ params[r].warnings = initial[r].warnings

SameAsSets(p, q) ==
    /\ p.duration_days = q.duration_days
    /\ Range(p.dietary_restrictions) = Range(q.dietary_restrictions)
    /\ Range(p.preferences) = Range(q.preferences)
    /\ Range(p.special_requirements) = Range(q.special_requirements)

\* C13: _make_cache_key gives two constraint tuples the same key when
\* they have the same duration and their three lists are equal as sets
\* (order and repeated elements ignored), and different keys when the
\* duration or one of the three sets differs.
C13_KeyIgnoresOrderAndRepeats ==
    \A r1, r2 \in Requests :
        (calls[r1].cache_save = 1 /\ calls[r2].cache_save = 1) =>
            /\ mapper[KeyOf(params[r1])].duration_days = params[r1].duration_days
            /\ SameAsSets(params[r1], params[r2]) <=>
                  KeyOf(params[r1]) = KeyOf(params[r2])

\* The step of request r is a cache hit answered with a plan.
HitStep(r) ==
    /\ pc[r] = "parsed"
    /\ pc'[r] = "done"
    /\ outcome'[r].status = 200

\* The plan stored for the constraints of request r.
StoredBody(r) == files[mapper[KeyOf(params[r])].filename].plan[1]

\* C14: on a cache hit the response equals the stored plan body in every
\* field except query_validation_llm_logging, which is the record of the
\* current request, and the hit writes nothing to the cache.
C14_HitReturnsStoredBody ==
    [][ \A r \in Requests :
          HitStep(r) =>
              /\ DOMAIN outcome'[r].response[1] = DOMAIN StoredBody(r)
              /\ \A field \in DOMAIN StoredBody(r) \ {"query_validation_llm_logging"} :
                    outcome'[r].response[1][field] = StoredBody(r)[field]
              /\ outcome'[r].response[1].query_validation_llm_logging =
                    <<params[r].llm_logging>>
              /\ files' = files
              /\ mapper' = mapper
              /\ calls'[r].cache_save = 0 ]_vars

\* A hit, a second later, whose validation failed while that of the
\* request that stored the plan had succeeded.
C14_Witness ==
    /\ pc[1] = "done" /\ pc[2] = "done"
    /\ outcome[1].status = 200 /\ outcome[2].status = 200
    /\ calls[2].cache_get = 1 /\ calls[2].day = 0 /\ calls[2].cache_save = 0
    /\ now = 1
    /\ outcome[2].response[1].generated_at = 0
    /\ outcome[1].response[1].query_validation_llm_logging[1].tokens_total = 1
    /\ outcome[2].response[1].query_validation_llm_logging[1].error
    /\ outcome[2].response[1].meal_plan = outcome[1].response[1].meal_plan

\* A Meal of schemas.py: every field, and a meal type that is a string.
IsMeal(m) == DOMAIN m = MealFields /\ m.meal_type # NON_STRING

\* C15: _generate_day_plan never raises: whatever the day-level request and
\* the single-meal requests come back with (a failure, a response without
\* meals, entries that are not objects or whose meal_type is not a string),
\* the request goes on, and the day that ends is a DayMealPlan of the
\* current day index whose meals are all Meals.
C15_DayPlanNeverRaises ==
    [][ \A r \in Requests :
          pc[r] \in {"await_day", "await_meal"} =>
              /\ pc'[r] \in {"await_meal", "gen_loop"}
              /\ outcome'[r] = NoOutcome
              /\ pc'[r] = "gen_loop" =>
                    /\ Len(gen'[r].day_plans) = Len(gen[r].day_plans) + 1
                    /\ LET plan == gen'[r].day_plans[Len(gen'[r].day_plans)]
                       IN  /\ plan.day = gen[r].day_index
                           /\ plan.day >= 1
                           /\ \A j \in 1..Len(plan.meals) : IsMeal(plan.meals[j]) ]_vars

\* A day whose response held a meal of a type that is not a string and
\* whose single-meal request failed: the placeholder raised, and the day
\* ended with the three meals of the whole-day fallback.
C15_Witness ==
    /\ settings.openai_api_key = "valid"
    /\ pc[1] = "gen_loop"
    /\ Len(gen[1].day_plans) = 1
    /\ calls[1].day = 1
    /\ calls[1].meal = 4
    /\ deviations = 2
    /\ gen[1].meal_gen_llm_logging.tokens_total = 0
    /\ Len(gen[1].day_plans[1].meals) = 3

\* Request r was answered with a plan that generate built itself.
Fresh(r) == pc[r] = "done" /\ outcome[r].status = 200 /\ gen[r].day_index > 1

\* C16: every freshly generated response holds exactly duration_days
\* DayMealPlan entries, the entry at position i being the one of day i.
C16_OneEntryPerDay ==
    \A r \in Requests :
        Fresh(r) =>
            LET response == outcome[r].response[1]
            IN  /\ response.duration_days = params[r].duration_days
                /\ Len(response.meal_plan) = response.duration_days
                /\ \A i \in 1..Len(response.meal_plan) : response.meal_plan[i].day = i

\* A plan of seven days, one of which came from the whole-day fallback.
C16_Witness ==
    /\ Fresh(1)
    /\ outcome[1].response[1].duration_days = 7
    /\ calls[1].day = 7
    /\ calls[1].meal = 3
    /\ settings.openai_api_key = "valid"

\* The regular expressions ran over the query of request r.
Extracted(r) == pc[r] \notin {"idle", "received"}

\* C17: the extraction warns that a field (dietary restrictions,
\* preferences, special requirements) is unspecified exactly when the list
\* the regular expressions extracted for it is empty, and a query without
\* constraints and without a duration (numbers only) gets the four
\* *_unspecified warnings and seven days.
C17_UnspecifiedWarnings ==
    \A r \in Requests :
        Extracted(r) =>
            LET emitted == Categories(initial[r].warnings)
            IN  /\ "dietary_restrictions_unspecified" \in emitted
                      <=> initial[r].dietary_restrictions = <<>>
                /\ "preferences_unspecified" \in emitted
                      <=> initial[r].preferences = <<>>
                /\ "special_requirements_unspecified" \in emitted
                      <=> initial[r].special_requirements = <<>>
                /\ (query[r] # <<>> /\ Range(query[r]) \subseteq NumberTokens) =>
                      /\ initial[r].duration_days = 7
                      /\ {"days_unspecified", "dietary_restrictions_unspecified",
                          "preferences_unspecified",
                          "special_requirements_unspecified"} \subseteq emitted

\* A query with a special requirement and nothing else: two of the three
\* lists are empty and only their warnings are emitted.
C17_Witness ==
    /\ Extracted(1)
    /\ query[1] = <<"budget">>
    /\ initial[1].special_requirements # <<>>
    /\ Categories(initial[1].warnings) =
          {"days_unspecified", "dietary_restrictions_unspecified",
           "preferences_unspecified"}

\* C18: when the day-level request succeeded and an entry of its response
\* failed to become a Meal, whatever the kind of the entry, the meals that
\* parsed are kept and only that slot is filled again: a single-meal
\* request pending in such a day is the replacement of one entry, never
\* the regeneration of the whole day.
C18_OtherMealsKept ==
    \A r \in Requests :
        (pc[r] = "await_meal" /\ gen[r].day_tokens = 1) =>
            gen[r].path = "primary"

\* The placeholders among the meals of the current day and of the days
\* that are complete.
Placeholders(g) ==
    Cardinality({i \in 1..Len(g.meals) : g.meals[i].source = "Placeholder"})
    + Cardinality({ij \in (1..Len(g.day_plans)) \X (1..4) :
                      /\ ij[2] <= Len(g.day_plans[ij[1]].meals)
                      /\ g.day_plans[ij[1]].meals[ij[2]].source = "Placeholder"})

\* The meals of the day that was current in g, seen after a step to g2.
MealsOfDay(g, g2) ==
    IF g2.day_index > g.day_index THEN g2.day_plans[g.day_index].meals ELSE g2.meals

\* C19: within a day the cascade is ordered.  A single-meal request is
\* issued only when the day-level request of that day or an earlier
\* single-meal request of that day came back, and then the day-level
\* request had failed (whole-day fallback) or an entry of its response did
\* not become a Meal; a placeholder is placed only when a single-meal
\* request came back, in the slot that request was for and with the meal
\* type of that slot.
C19_CascadeOrder ==
    [][ \A r \in Requests :
          LET g  == gen[r]
              g2 == gen'[r]
          IN  /\ calls'[r].meal > calls[r].meal =>
                    /\ pc[r] \in {"await_day", "await_meal"}
                    /\ calls[r].day = g.day_index
                    /\ g2.day_index = g.day_index
                    /\ \/ g2.path = "fallback"
                       \/ g2.path = "primary" /\ ~Validates(Head(g2.entries))
              /\ Placeholders(g2) > Placeholders(g) =>
                    /\ pc[r] = "await_meal"
                    /\ Placeholders(g2) = Placeholders(g) + 1
                    /\ LET placed == MealsOfDay(g, g2)[Len(g.meals) + 1]
                       IN  /\ placed.source = "Placeholder"
                           /\ placed.meal_type =
                                 IF g.path = "primary"
                                 THEN Get(Head(g.entries).meal_type, "lunch")
                                 ELSE Head(g.todo) ]_vars

\* A day whose response held one entry that did not validate: the
\* single-meal request for it failed too and the placeholder stands in
\* its slot, between the meals of the model.
C19_Witness ==
    /\ settings.openai_api_key = "valid"
    /\ Len(gen[1].day_plans) >= 1
    /\ calls[1].day = 1
    /\ calls[1].meal = 1
    /\ gen[1].meal_gen_llm_logging.tokens_total = 1
    /\ Len(gen[1].day_plans[1].meals) = 3
    /\ gen[1].day_plans[1].meals[1].source = "AI Generated"
    /\ gen[1].day_plans[1].meals[2].source = "Placeholder"
    /\ gen[1].day_plans[1].meals[3].source = "AI Generated"

\* The moves from one phase of a request to the next.
PhaseOrder ==
    {<<"idle", "received">>, <<"received", "extracted">>, <<"received", "done">>,
     <<"extracted", "validating">>, <<"extracted", "parsed">>,
     <<"validating", "parsed">>, <<"parsed", "done">>, <<"parsed", "gen_loop">>,
     <<"gen_loop", "await_day">>, <<"await_day", "await_meal">>,
     <<"await_day", "gen_loop">>, <<"await_meal", "gen_loop">>,
     <<"gen_loop", "done">>}

\* The lookups of the cache one request makes.
Lookups == IF settings.enable_cache THEN 1 ELSE 0

\* C20: the phases of a request follow the order extract, validate
\* (optional), cache check, then return on a hit, or generate the days,
\* assemble, write the cache and return.  The regular expressions run on
\* arrival, the validation request follows the extraction, the lookup
\* follows parse, a hit returns without generation and without a write,
\* the days are generated after the lookup in the order 1..duration, and
\* the single write of a request comes on the miss path once the last day
\* is generated, its failure leaving the answer a fresh plan.
C20_PhaseOrder ==
    [][ \A r \in Requests :
          /\ pc'[r] # pc[r] => <<pc[r], pc'[r]>> \in PhaseOrder
          /\ initial'[r] # initial[r] => pc[r] = "received"
          /\ calls'[r].validation # calls[r].validation =>
                pc[r] = "extracted" /\ calls[r].validation = 0
          /\ params'[r] # params[r] => pc'[r] = "parsed"
          /\ calls'[r].cache_get # calls[r].cache_get =>
                pc[r] = "parsed" /\ calls[r].cache_get = 0
          /\ (pc[r] = "parsed" /\ pc'[r] = "done") =>
                /\ calls'[r].cache_get = 1
                /\ calls'[r].cache_save = 0
                /\ calls'[r].day = 0 /\ calls'[r].meal = 0
                /\ files' = files
          /\ pc'[r] = "await_day" =>
                /\ calls[r].cache_get = Lookups
                /\ calls[r].cache_save = 0
                /\ gen[r].day_index = Len(gen[r].day_plans) + 1
          /\ calls'[r].cache_save # calls[r].cache_save =>
                /\ pc[r] = "gen_loop" /\ pc'[r] = "done"
                /\ calls[r].cache_save = 0
                /\ calls[r].cache_get = 1
                /\ Len(gen[r].day_plans) = params[r].duration_days
                /\ outcome'[r] = Ok(FreshResponse(gen[r], params[r]))
          /\ files' # files =>
                \/ \E r2 \in Requests : calls'[r2].cache_save # calls[r2].cache_save
                \/ faults' # faults ]_vars

\* A plan was generated after a miss and the disk was full when it was to
\* be stored: nothing was written and the request was answered the plan.
C20_Witness ==
    /\ pc[2] = "done"
    /\ disk # "ok"
    /\ calls[2].cache_get = 1
    /\ calls[2].day = 2
    /\ calls[2].cache_save = 1
    /\ outcome[2].status = 200
    /\ outcome[2].response[1].meal_plan_id = 2
    /\ \A f \in DOMAIN files : files[f].plan = <<>> \/ files[f].plan[1].meal_plan_id # 2

\* The compact records of a list of meals, in order.
Compact(meals) ==
    [i \in 1..Len(meals) |->
        [meal_type |-> meals[i].meal_type, recipe_name |-> meals[i].recipe_name,
         description |-> meals[i].description,
         nutritional_info |-> meals[i].nutritional_info]]

IsPrefix(s, t) == Len(s) <= Len(t) /\ SubSeq(t, 1, Len(s)) = s

\* C21: the previous-meals context never loses or changes an entry.  When
\* the request for day N is made it holds one compact record for each meal
\* of the days 1..N-1, in day order then meal order, and the step that
\* finalizes day N extends it by the records of the meals of day N.
C21_ContextOnlyGrows ==
    [][ \A r \in Requests :
          LET g  == gen[r]
              g2 == gen'[r]
          IN  /\ IsPrefix(g.all_previous_meals, g2.all_previous_meals)
              /\ pc'[r] = "await_day" =>
                    /\ Len(g2.day_plans) = g2.day_index - 1
                    /\ g2.all_previous_meals = Compact(AllMeals(g2.day_plans))
              /\ g2.day_index > g.day_index =>
                    /\ g2.day_index = g.day_index + 1
                    /\ g2.all_previous_meals =
                          g.all_previous_meals
                          \o Compact(g2.day_plans[g.day_index].meals)
              /\ g2.day_index = g.day_index =>
                    g2.all_previous_meals = g.all_previous_meals ]_vars

\* The request for day 3 is pending; day 1 or day 2 took a placeholder
\* and the context holds the seven meals of the two days.
C21_Witness ==
    /\ pc[1] = "await_day"
    /\ gen[1].day_index = 3
    /\ Len(gen[1].all_previous_meals) = 7
    /\ \E i \in 1..7 : gen[1].all_previous_meals[i].recipe_name = "Simple Lunch Bowl"
    /\ gen[1].all_previous_meals[7].meal_type = "snack"

\* The model requests of a request that were issued and have not come
\* back, from its counters c.
Outstanding(c) == c.validation + c.day + c.meal - c.returned

\* C22: a request has at most one model request outstanding at any time,
\* and it issues the day-level request of day N only when none is
\* outstanding, every request of day N-1 has come back, and the meals of
\* day N-1 are in the context; this holds with the other requests
\* interleaved at the awaits.
C22_OneOutstandingRequest ==
    [][ \A r \in Requests :
          /\ Outstanding(calls'[r]) \in {0, 1}
          /\ Outstanding(calls'[r]) = 1 <=>
                pc'[r] \in {"validating", "await_day", "await_meal"}
          /\ calls'[r].day > calls[r].day =>
                /\ Outstanding(calls[r]) = 0
                /\ calls[r].day = gen[r].day_index - 1
                /\ gen[r].path = "none"
                /\ Len(gen[r].day_plans) = gen[r].day_index - 1
                /\ gen[r].all_previous_meals = Compact(AllMeals(gen[r].day_plans)) ]_vars

\* Two requests with a model request outstanding each: the day-level
\* request of day 2 of one, a single-meal request of day 1 of the other.
C22_Witness ==
    /\ pc[1] = "await_day"
    /\ gen[1].day_index = 2
    /\ Len(gen[1].all_previous_meals) = 3
    /\ pc[2] = "await_meal"
    /\ gen[2].day_index = 1
    /\ Outstanding(calls[1]) = 1
    /\ Outstanding(calls[2]) = 1

\* The step is a get_meal_plan of request r that finds an index entry
\* whose stored plan no longer exists.
StaleGet(r) ==
    /\ calls'[r].cache_get > calls[r].cache_get
    /\ KeyOf(params[r]) \in DOMAIN mapper
    /\ mapper[KeyOf(params[r])].filename \notin DOMAIN files

\* The get returns a miss, the entry of the key is gone and every other
\* entry of the index is as it was.
Pruned(r) ==
    /\ outcome'[r] = NoOutcome
    /\ DOMAIN mapper' = DOMAIN mapper \ {KeyOf(params[r])}
    /\ \A k \in DOMAIN mapper' : mapper'[k] = mapper[k]
    /\ files' = files

SaveStep(r) ==
    /\ calls'[r].cache_save > calls[r].cache_save
    /\ settings.enable_cache
    /\ disk = "ok"

\* C24: every successful save_meal_plan under a key creates a new stored
\* body and leaves every previously stored body, of that key and of other
\* keys, present and unmodified, also when two writes under the same key
\* happen within the same clock second; after the write the index entry
\* of the key locates the body written last.
C24_SaveKeepsOlderBodies ==
    [][ \A r \in Requests :
          SaveStep(r) =>
              /\ \A f \in DOMAIN files : f \in DOMAIN files' /\ files'[f] = files[f]
              /\ \E f \in DOMAIN files' \ DOMAIN files :
                    /\ files'[f] = StoredPlan(outcome'[r].response[1])
                    /\ mapper'[KeyOf(params[r])].filename = f ]_vars

\* Both requests missed, generated and wrote under the same key.
BothWrote ==
    /\ \A r \in Requests :
          pc[r] = "done" /\ calls[r].cache_get = 1 /\ calls[r].cache_save = 1
    /\ \A r1, r2 \in Requests : KeyOf(params[r1]) = KeyOf(params[r2])

\* C25: when two requests with the same constraint key both miss, both
\* generate and both write, then after both writes the index entry of the
\* key locates a complete stored body written by one of the two, and a
\* following get under that key returns that body.
C25_LastWriterWins ==
    BothWrote =>
        /\ KeyOf(params[1]) \in DOMAIN mapper
        /\ mapper[KeyOf(params[1])].filename \in DOMAIN files
        /\ \E r \in Requests :
              /\ files[mapper[KeyOf(params[1])].filename] =
                     StoredPlan(outcome[r].response[1])
              /\ get_meal_plan(params[1]).found = <<StoredPlan(outcome[r].response[1])>>

\* Both requests wrote, their plans differ, and the request that arrived
\* first wrote last.
C25_Witness ==
    /\ BothWrote
    /\ outcome[1].response[1].meal_plan # outcome[2].response[1].meal_plan
    /\ outcome[2].response[1].meal_plan_id = 2
    /\ files[mapper[KeyOf(params[1])].filename] = StoredPlan(outcome[1].response[1])

\* The fields of a usage record that total_llm_logging carries too.
UsageFields ==
    {"tokens_prompt", "tokens_completion", "tokens_total", "llm_latency_ms",
     "total_duration_ms"}

\* C26: in every freshly generated response each field of
\* total_llm_logging (tokens_prompt, tokens_completion, tokens_total,
\* llm_latency_ms, total_duration_ms) equals the sum of the same field of
\* the query-validation record and of the meal-generation record, and both
\* phase records are present in the response alongside the total.
C26_TotalIsSumOfPhases ==
    \A r \in Requests :
        Fresh(r) =>
            LET response == outcome[r].response[1]
            IN  /\ Len(response.query_validation_llm_logging) = 1
                /\ Len(response.meal_generation_llm_logging) = 1
                /\ Len(response.total_llm_logging) = 1
                /\ \A field \in UsageFields :
                      response.total_llm_logging[1][field] =
                          response.query_validation_llm_logging[1][field]
                          + response.meal_generation_llm_logging[1][field]

\* C27: the summary's total_meals equals the sum over all days of the
\* number of meals of the day, and its estimated cost range is
\* [total_meals x base, total_meals x (base + 1.5)] truncated to integers,
\* where base is 2.0 if and only if "budget-friendly" is among the special
\* requirements and 3.5 otherwise; the lower bound never exceeds the upper.
C27_CostRange ==
    \A r \in Requests :
        Fresh(r) =>
            LET summary == outcome[r].response[1].summary
                n == Len(AllMeals(outcome[r].response[1].meal_plan))
                budget == "budget-friendly" \in Range(params[r].special_requirements)
                lower == IF budget THEN 2 * n ELSE (7 * n) \div 2
                upper == IF budget THEN (7 * n) \div 2 ELSE 5 * n
            IN  /\ summary.total_meals = n
                /\ summary.estimated_cost =
                       "$" \o ToString(lower) \o "-" \o ToString(upper)
                /\ lower <= upper

\* Three meals on a budget are summarised with $6-10 (10.5 truncated).
C27_Witness ==
    /\ Fresh(1)
    /\ "budget-friendly" \in Range(params[1].special_requirements)
    /\ outcome[1].response[1].summary.total_meals = 3
    /\ outcome[1].response[1].summary.estimated_cost = "$6-10"

\* The sum of the first integers of the first i meals, and the number of
\* those meals that have one.
RECURSIVE PrepSum(_, _)
PrepSum(meals, i) ==
    IF i = 0 THEN 0
    ELSE PrepSum(meals, i - 1)
         + (IF FirstInt(meals[i].preparation_time) = <<>>
            THEN 0 ELSE FirstInt(meals[i].preparation_time)[1])

PrepCount(meals) ==
    Cardinality({i \in 1..Len(meals) : FirstInt(meals[i].preparation_time) # <<>>})

\* C28: the summary's average preparation time is the integer quotient of
\* the sum of the first integer found in each meal's preparation_time by
\* the number of meals in which an integer was found; meals without any
\* integer are excluded from both, and when no meal has one (a plan with
\* no meals included) the result is "25 mins": nothing is divided by zero.
C28_AveragePrepTime ==
    \A r \in Requests :
        Fresh(r) =>
            LET meals == AllMeals(outcome[r].response[1].meal_plan)
            IN  outcome[r].response[1].summary.avg_prep_time =
                    IF PrepCount(meals) = 0
                    THEN "25 mins"
                    ELSE ToString(PrepSum(meals, Len(meals)) \div PrepCount(meals))
                         \o " mins"

\* Of three meals one has no integer and one has two: (1 + 20) \div 2.
C28_Witness ==
    /\ Fresh(1)
    /\ LET meals == AllMeals(outcome[1].response[1].meal_plan)
       IN  /\ Len(meals) = 3
           /\ {meals[i].preparation_time : i \in 1..3} =
                  {"a while", "1 hour 30 mins", "20 mins"}
    /\ outcome[1].response[1].summary.avg_prep_time = "10 mins"

\* A plan of two days without any meal is summarised with the default.
C28_WitnessNoMeals ==
    /\ Fresh(1)
    /\ AllMeals(outcome[1].response[1].meal_plan) = <<>>
    /\ outcome[1].response[1].summary.avg_prep_time = "25 mins"

\* parse has returned the parameters of request r.
Parsed(r) == pc[r] \notin {"idle", "received", "extracted", "validating"}
             /\ outcome[r].status # 400

\* The warnings parse returned after those of the extractor.
Appended(r) ==
    SubSeq(params[r].warnings, Len(initial[r].warnings) + 1, Len(params[r].warnings))

\* C29: a warning supplied by the validation model is appended to the
\* final warnings only if no warning raised by the extractor has the same
\* category; the warnings raised by the extractor are all kept, in their
\* original order, before any model-supplied warning.
C29_WarningsMerged ==
    \A r \in Requests :
        Parsed(r) =>
            /\ IsPrefix(initial[r].warnings, params[r].warnings)
            /\ \A i \in 1..Len(Appended(r)) :
                  /\ Appended(r)[i].category \notin Categories(initial[r].warnings)
                  /\ \E l \in LLMWarningLists : Appended(r)[i] \in Range(l.items)

\* Of two warnings of the model the one whose category the extractor had
\* raised is dropped and the other is appended after the extractor's.
C29_Witness ==
    /\ Parsed(1)
    /\ Len(initial[1].warnings) >= 2
    /\ "days_unspecified" \in Categories(initial[1].warnings)
    /\ Appended(1) = <<Warning("days_capped_at_7", "Duration limited")>>

\* C30: whenever parse returns parameters, the final dietary_restrictions,
\* the items added by the validation model included, contain at most one
\* of vegan, vegetarian and pescatarian: generation is never started with
\* a conflicting pair of restrictions.
C30_NoConflictReturned ==
    \A r \in Requests :
        Parsed(r) =>
            Cardinality(Range(params[r].dietary_restrictions)
                        \cap {"vegan", "vegetarian", "pescatarian"}) <= 1

\* No call is under way, worker w has saved its plan and the plan is
\* still stored.
SavedAndKept(w) ==
    /\ \A v \in Requests : pc[v] = "idle"
    /\ calls[w].cache_save = 1
    /\ \E f \in DOMAIN files : f.cache_key = KeyOf(params[w])

\* C31: when save_meal_plan calls under different keys run concurrently
\* in independent workers, each load and each save of the index being
\* atomic, then after they complete the index has an entry for every key:
\* no update is lost by the load-modify-save sequence, of a save or of the
\* pruning of a get.
C31_NoLostIndexUpdate ==
    \A w \in Requests : SavedAndKept(w) => KeyOf(params[w]) \in DOMAIN mapper

\* The plan has a meal that _placeholder_recipe made.
HasPlaceholder(plan) ==
    \E i \in 1..Len(AllMeals(plan.meal_plan)) :
        AllMeals(plan.meal_plan)[i].source = "Placeholder"

\* Request r was answered with a plan read from the cache.
ServedFromCache(r) == pc[r] = "done" /\ outcome[r].status = 200 /\ ~Fresh(r)

\* C32: a plan that contains at least one placeholder meal (source
\* "Placeholder") is never written to the cache, so a cache hit never
\* returns a plan with a placeholder meal made during an earlier outage of
\* the model.
C32_NoPlaceholderCached ==
    /\ \A f \in DOMAIN files :
          files[f].plan # <<>> => ~HasPlaceholder(files[f].plan[1])
    /\ \A r \in Requests :
          ServedFromCache(r) => ~HasPlaceholder(outcome[r].response[1])

\* tokens_total of an optional usage record, a missing record counting 0.
TokensOf(record) == IF record = <<>> THEN 0 ELSE record[1].tokens_total

\* C33: in every response returned by generate, freshly generated or
\* served from the cache, if total_llm_logging is present its tokens_total
\* equals the tokens_total of the response's query_validation_llm_logging
\* plus that of its meal_generation_llm_logging, a missing phase record
\* counting as 0.
C33_TotalTokensConsistent ==
    \A r \in Requests :
        (pc[r] = "done" /\ outcome[r].status = 200
            /\ outcome[r].response[1].total_llm_logging # <<>>) =>
            LET response == outcome[r].response[1]
            IN  TokensOf(response.total_llm_logging) =
                    TokensOf(response.query_validation_llm_logging)
                    + TokensOf(response.meal_generation_llm_logging)

\* C34: the warnings of every response returned for a request, a response
\* served from the cache included, are the warnings that request's own
\* extraction and validation produced; in particular a request whose
\* query names no duration receives a days_unspecified warning.
C34_OwnWarnings ==
    \A r \in Requests :
        (pc[r] = "done" /\ outcome[r].status = 200) =>
            /\ outcome[r].response[1].warnings = params[r].warnings
            /\ ~initial[r].explicit =>
                  "days_unspecified" \in Categories(outcome[r].response[1].warnings)

\* C35: for each day _generate_day_plan issues exactly one day-level
\* model request and at most one single-meal request per required meal
\* type of that day, whatever the model returns; hence one request issues
\* at most duration x 5 generation model requests.
C35_BoundedModelRequests ==
    \A r \in Requests :
        /\ pc[r] \in {"await_day", "await_meal"} =>
              calls[r].day = Issued * gen[r].day_index
        /\ calls[r].day_meal <= Len(gen[r].meal_types)
        /\ calls[r].day + calls[r].meal <= params[r].duration_days * 5

\* C36: the meal-generation usage record of a freshly generated response
\* accounts for every generation model request of the run: its
\* tokens_total is the sum of the tokens reported by all day-level
\* requests and all single-meal fallback requests that returned a
\* response.
C36_UsageAccountsForEveryRequest ==
    \A r \in Requests :
        Fresh(r) =>
            TokensOf(outcome[r].response[1].meal_generation_llm_logging) =
                calls[r].tokens

\* Every entry of the mapper names a stored file that exists, and the
\* constraint tuple it records hashes to the key it is stored under.
IndexConsistent ==
    \A k \in DOMAIN mapper :
        /\ mapper[k].filename \in DOMAIN files
        /\ _make_cache_key(mapper[k].dietary_restrictions, mapper[k].preferences,
                           mapper[k].duration_days, mapper[k].special_requirements) = k

\* get_meal_plan would return None for every constraint tuple.
AllMiss == \A p \in ConstraintTuples : get_meal_plan(p).found = <<>>

\* A call of save_meal_plan that stores its plan.
SuccessfulSave ==
    \E r \in Requests : calls'[r].cache_save # calls[r].cache_save /\ disk = "ok"

\* C37: along any sequential history of get_meal_plan, save_meal_plan and
\* clear in which nothing else deletes a file, every entry of the index
\* locates a stored body that exists and records a constraint tuple that
\* hashes to its key; a clear leaves the index empty, on an empty index
\* every get is a miss, and the index stays empty until a save succeeds.
C37_IndexConsistentAndClearEmpties ==
    /\ [](IndexConsistent /\ (mapper = <<>> => AllMiss))
    /\ [][/\ CacheClear => mapper' = <<>>
          /\ (mapper = <<>> /\ ~SuccessfulSave) => mapper' = <<>>]_vars

\* A plan was stored, the store was cleared, a get missed, and a later
\* save under the same key is served again.
C37_Witness ==
    /\ calls[1].cache_save = 1 /\ calls[1].cache_get = 1
    /\ outcome[1] = NoOutcome
    /\ calls[2].cache_save = 1 /\ calls[2].cache_get = 1
    /\ outcome[2] # NoOutcome
    /\ KeyOf(params[1]) = KeyOf(params[2])
    /\ Cardinality(DOMAIN files) = 1
    /\ now = 1

\* C38: a stored entry is served only while it is younger than
\* cache_ttl_hours: a call of get_meal_plan under a key whose entry was
\* written more than cache_ttl_hours earlier returns None.
C38_ExpiredEntryNotServed ==
    [][\A r \in Requests :
          (/\ calls'[r].cache_get # calls[r].cache_get
           /\ KeyOf(params[r]) \in DOMAIN mapper
           /\ now - mapper[KeyOf(params[r])].cached_at > Hours(cache_ttl_hours))
          => outcome'[r] = NoOutcome]_vars

====
